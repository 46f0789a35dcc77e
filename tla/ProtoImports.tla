---------------------------- MODULE ProtoImports ----------------------------
(***************************************************************************)
(* The imports of a proto file, as the generator follows them to hand them *)
(* to protoc and to find the go packages of dotted types (ResolveImports,  *)
(* collectImports).                                                        *)
(* An import statement is a name; the proto paths make a file of it, and   *)
(* two names may be the same file.  What a file says is settled when it is *)
(* read; a file that does not parse ends it all.                           *)
(***************************************************************************)
EXTENDS Naturals, Sequences, FiniteSets

CONSTANTS ProtoFile,       \* absolute paths of proto files
          Source,          \* the proto file that is generated from
          ImportName,      \* what import statements may say
          WellKnown,       \* the names that isWellKnownProto leaves out
          MaxStatements    \* bound: import statements, for model checking

NotFound == "not found"

ASSUME ProtoAssumption ==
  Source \in ProtoFile /\ WellKnown \subseteq ImportName /\ MaxStatements \in Nat

VARIABLES
  lookup,    \* lookupProtoFile: the file of a name on the proto paths
  names,     \* names[f]: the import statements of f, {} until it is read
  reading,   \* the activations of collectImports
  seen,      \* visited
  resolved,  \* result: the files in the order they were found
  ending     \* "running", or how ResolveImports ends: "ok", "error"

protoVars == <<lookup, names, reading, seen, resolved, ending>>

Current == reading[Len(reading)]
LookedAll(n) == [reading EXCEPT ![Len(reading)].left = {}]   \* wrong: return in place of continue
Looked(n) == [reading EXCEPT ![Len(reading)].left = @ \ {n}]
Statements == {s \in ProtoFile \X ImportName : s[2] \in names[s[1]]}
Followed(n) == n \notin WellKnown /\ lookup[n] # NotFound

ProtoInit ==
  /\ lookup \in [ImportName \ WellKnown -> ProtoFile \cup {NotFound}]
  /\ \E N \in SUBSET ImportName :
       /\ Cardinality(N) <= MaxStatements
       /\ names = [f \in ProtoFile |-> IF f = Source THEN N ELSE {}]
       /\ reading = <<[file |-> Source, left |-> N]>>
  /\ seen = {Source}
  /\ resolved = <<>>
  /\ ending = "running"

(* A well-known name, one that is nowhere, or a file that was visited.     *)
SkipImport(n) ==
  /\ Followed(n) => lookup[n] \in seen
  /\ reading' = Looked(n)
  /\ UNCHANGED <<lookup, names, seen, resolved, ending>>

FollowImport(n) ==
  LET f == lookup[n]
  IN  /\ Followed(n) /\ f \notin seen
      /\ seen' = seen \cup {f}
      /\ resolved' = Append(resolved, f)
      /\ \/ \E N \in SUBSET ImportName :
              /\ Cardinality(Statements) + Cardinality(N) <= MaxStatements
              /\ names' = [names EXCEPT ![f] = N]
              /\ reading' = Append(Looked(n), [file |-> f, left |-> N])
              /\ UNCHANGED ending
         \/ ending' = "error" /\ UNCHANGED <<names, reading>>
      /\ UNCHANGED lookup

CollectImports ==
  /\ ending = "running" /\ reading # <<>>
  /\ \E n \in Current.left : SkipImport(n) \/ FollowImport(n)

FileDone ==
  /\ ending = "running" /\ reading # <<>>
  /\ Current.left = {}
  /\ reading' = SubSeq(reading, 1, Len(reading) - 1)
  /\ ending' = IF Len(reading) = 1 THEN "ok" ELSE "running"
  /\ UNCHANGED <<lookup, names, seen, resolved>>

ProtoNext == CollectImports \/ FileDone

ProtoSpec == ProtoInit /\ [][ProtoNext]_protoVars
-----------------------------------------------------------------------------
ProtoTypeOK ==
  /\ lookup \in [ImportName \ WellKnown -> ProtoFile \cup {NotFound}]
  /\ names \in [ProtoFile -> SUBSET ImportName]
  /\ reading \in Seq([file : ProtoFile, left : SUBSET ImportName])
  /\ seen \subseteq ProtoFile /\ resolved \in Seq(ProtoFile)
  /\ ending \in {"running", "ok", "error"}

(* protoc is handed each file once, by whatever names it is imported, and  *)
(* never the source itself, even where the imports form a cycle; and it is *)
(* handed every file that one of them, or the source, imports.             *)
HandedToProtoc ==
  /\ \A i, j \in DOMAIN resolved : resolved[i] = resolved[j] => i = j
  /\ \A i \in DOMAIN resolved : resolved[i] # Source
  /\ ending = "ok" =>
       \A f \in seen : \A n \in names[f] :
         Followed(n) => \/ lookup[n] = Source
                        \/ \E i \in DOMAIN resolved : resolved[i] = lookup[n]
=============================================================================
