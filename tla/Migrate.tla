------------------------------- MODULE Migrate -------------------------------
(***************************************************************************)
(* zctl migrate: moves a project from tal-tech/go-zero to the module that  *)
(* replaced it (go.mod, then the imports of every file, then go mod tidy), *)
(* asking before it replaces builderx.  A run may fail or be stopped at    *)
(* any step and be started again; the developer restores torn files.       *)
(***************************************************************************)
EXTENDS Naturals, FiniteSets

CONSTANTS GoFile,    \* go files of the project
          MaxStops   \* bound: failures, signals and kills

ASSUME MigrateAssumption ==
  /\ IsFiniteSet(GoFile) /\ GoFile # {}
  /\ MaxStops \in Nat

VARIABLES
  require,   \* the go-zero modules that go.mod requires: "old", "new"
  files,     \* files[f]: what f imports and calls
  memory,    \* what rewriteFile made of the files, written or not
  walked,    \* files that rewriteImport has parsed
  toWrite,   \* files that writeFile has yet to come to
  stage,     \* what migrate does next, or how it ended
  confirm,   \* builderxConfirm
  handler,   \* the goroutine of cancelOnSignals
  closed,    \* its doneChan is closed
  refused,   \* files for which the developer refused the replacement
  stops

migrateVars == <<require, files, memory, walked, toWrite, stage, confirm,
                 handler, closed, refused, stops>>
onDisk == <<require, files>>
inMemory == <<memory, walked, toWrite, confirm, refused>>
signals == <<handler, closed>>

(* Of a file: the path of its go-zero imports, that of its builderx import *)
(* ("moved" is builderx under the new module, "builder" its replacement),  *)
(* how the package variables that a call of it initialises name it,        *)
(* whether it is called elsewhere (in a function, within another call),    *)
(* and the FieldNames of another package that initialises such a variable. *)
(* What is rewritten of its other imports does not depend on builderx: a   *)
(* source that has builderx has others.                                    *)
Contents == [zero : {"none", "old", "new"},
             builderx : {"none", "old", "moved", "builder"},
             direct : {"none", "builderx", "builder"},
             elsewhere : BOOLEAN,
             others : {"none", "FieldNames", "RawFieldNames"},
             torn : BOOLEAN]
Untouched == [zero |-> "none", builderx |-> "none", direct |-> "none", elsewhere |-> FALSE,
              others |-> "none", torn |-> FALSE]
Sources ==
  {[Untouched EXCEPT !.zero = z] : z \in {"none", "old"}} \cup
  {c \in Contents : /\ c.builderx = "old" /\ c.zero = "old" /\ ~c.torn
                    /\ c.direct # "builder" /\ c.others # "RawFieldNames"
                    /\ c.direct = "builderx" \/ c.elsewhere}
Torn == [Untouched EXCEPT !.torn = TRUE]

MigrateInit ==
  /\ require = {"old"}
  /\ files \in [GoFile -> Sources]
  /\ memory = files
  /\ walked = {} /\ toWrite = {}
  /\ stage = "idle"
  /\ confirm = "unknown"
  /\ handler = "none" /\ closed = FALSE
  /\ refused = {}
  /\ stops = 0

Migrating == stage \in {"edit", "add", "cancel", "walk", "write", "tidy"}
-----------------------------------------------------------------------------
StartMigrate ==
  /\ ~Migrating
  /\ stage' = "edit"
  /\ confirm' = "unknown"
  /\ handler' = "none" /\ closed' = FALSE
  /\ memory' = files /\ walked' = {} /\ toWrite' = {}
  /\ UNCHANGED <<onDisk, refused, stops>>

(* editMod: the versions are looked up, the old module is dropped.         *)
RemoveRequire ==
  /\ stage = "edit"
  /\ require' = require \ {"old"}
  /\ stage' = "add"
  /\ UNCHANGED <<files, inMemory, signals, stops>>

AddRequire ==
  /\ stage = "add"
  /\ require' = require \cup {"new"}
  /\ stage' = "cancel"
  /\ UNCHANGED <<files, inMemory, signals, stops>>

(* cancelOnSignals starts its goroutine, and its defer closes doneChan     *)
(* when it returns.                                                        *)
CancelOnSignals ==
  /\ stage = "cancel" /\ handler = "none"
  /\ handler' = "started"
  /\ UNCHANGED <<onDisk, inMemory, stage, closed, stops>>

CloseDone ==
  /\ stage = "cancel" /\ handler # "none"
  /\ closed' = TRUE
  /\ stage' = "walk"
  /\ UNCHANGED <<onDisk, inMemory, handler, stops>>

(* The goroutine: signal.Notify, and the select.                           *)
Notify ==
  /\ Migrating
  /\ handler = "started"
  /\ handler' = "ready"
  /\ UNCHANGED <<onDisk, inMemory, stage, closed, stops>>

SeeDone ==
  /\ Migrating
  /\ handler = "ready" /\ closed
  /\ handler' = "gone"
  /\ UNCHANGED <<onDisk, inMemory, stage, closed, stops>>

(* rewriteFile with the answer to refactorBuilderx, and replacePkg, which  *)
(* runs whatever the answer was and looks at package variables only.       *)
RewrittenUnlessRefused(c, allow) ==   \* wrong: a refusal leaves the import as it is
  IF c.builderx = "old" /\ ~allow THEN c
  ELSE [c EXCEPT !.zero = IF @ = "old" THEN "new" ELSE @,
                 !.builderx = IF @ = "old" THEN "builder" ELSE @,
                 !.direct = IF @ = "builderx" THEN "builder" ELSE @]
Rewritten(c, allow) ==
  [c EXCEPT !.zero = IF @ = "old" THEN "new" ELSE @,
            !.builderx = IF @ # "old" THEN @ ELSE IF allow THEN "builder" ELSE "moved",
            !.direct = IF c.builderx = "old" /\ @ = "builderx" THEN "builder" ELSE @,
            !.others = IF c.builderx = "old" /\ @ = "FieldNames" THEN "RawFieldNames" ELSE @]

(* What the developer may answer, and what builderxConfirm becomes.        *)
Replies == CASE confirm = "all" -> {<<TRUE, "all">>}
             [] confirm = "ignore" -> {<<FALSE, "ignore">>}
             [] OTHER -> {TRUE, FALSE} \X {"unknown"} \cup {<<TRUE, "all">>, <<FALSE, "ignore">>}

RewriteFile ==
  /\ stage = "walk"
  /\ \E f \in GoFile \ walked :
       /\ files[f] # Torn
       /\ walked' = walked \cup {f}
       /\ \E a \in IF files[f].builderx = "old" THEN Replies ELSE {<<TRUE, confirm>>} :
            /\ memory' = [memory EXCEPT ![f] = Rewritten(files[f], a[1])]
            /\ confirm' = a[2]
            /\ refused' = IF a[1] THEN refused ELSE refused \cup {f}
  /\ UNCHANGED <<onDisk, toWrite, stage, signals, stops>>

StartWriting ==
  /\ stage = "walk" /\ walked = GoFile
  /\ toWrite' = GoFile
  /\ stage' = "write"
  /\ UNCHANGED <<onDisk, memory, walked, confirm, refused, signals, stops>>

WriteGoFile ==
  /\ stage = "write"
  /\ \E f \in toWrite :
       /\ files' = [files EXCEPT ![f] = memory[f]]
       /\ toWrite' = toWrite \ {f}
  /\ stage' = IF Cardinality(toWrite) = 1 THEN "tidy" ELSE "write"
  /\ UNCHANGED <<require, memory, walked, confirm, refused, signals, stops>>

(* go mod tidy requires what some file imports, and nothing else.          *)
Needs(c, module) ==
  \/ c.zero = module
  \/ c.builderx \in IF module = "old" THEN {"old"} ELSE {"moved", "builder"}
Tidy ==
  /\ stage = "tidy"
  /\ require' = {m \in {"old", "new"} : \E f \in GoFile : Needs(files[f], m)}
  /\ stage' = "done"
  /\ UNCHANGED <<files, inMemory, signals, stops>>
-----------------------------------------------------------------------------
Stop == stops < MaxStops /\ stops' = stops + 1

(* A step returns an error; a torn file does not parse.                    *)
FailMigrate ==
  /\ Migrating
  /\ \/ Stop
     \/ stage = "walk" /\ (\E f \in GoFile : files[f] = Torn) /\ UNCHANGED stops
  /\ stage' = "failed"
  /\ UNCHANGED <<onDisk, inMemory, signals>>

(* A process that dies may leave the file it writes torn.                  *)
Dies ==
  /\ stage' = "dead"
  /\ \/ UNCHANGED files
     \/ stage = "write" /\ \E f \in toWrite : files' = [files EXCEPT ![f] = Torn]

KillMigrate ==
  /\ Migrating
  /\ Stop
  /\ Dies
  /\ UNCHANGED <<require, inMemory, signals>>

(* Ctrl-C.  Nobody listens before Notify, and the process dies.  The       *)
(* goroutine exits the process if it waits in its select; afterwards the   *)
(* signal is caught and dropped, but a go command that runs dies of it.    *)
Interrupt ==
  /\ Migrating
  /\ Stop
  /\ \/ handler \in {"none", "started"} /\ Dies
     \/ handler = "ready" /\ ~closed /\ stage' = "canceled" /\ UNCHANGED files
     \/ /\ handler \in {"ready", "gone"}
        /\ stage' = IF stage = "tidy" THEN "failed" ELSE stage
        /\ UNCHANGED files
  /\ UNCHANGED <<require, inMemory, handler, closed>>

(* The developer takes a torn file back from version control.              *)
Restore ==
  /\ ~Migrating
  /\ \E f \in GoFile :
       /\ files[f] = Torn
       /\ files' \in {[files EXCEPT ![f] = c] : c \in Sources}
       /\ refused' = refused \ {f}
  /\ UNCHANGED <<require, memory, walked, toWrite, stage, confirm, signals, stops>>

MigrateNext ==
  \/ StartMigrate \/ RemoveRequire \/ AddRequire \/ CancelOnSignals \/ CloseDone
  \/ Notify \/ SeeDone \/ RewriteFile \/ StartWriting \/ WriteGoFile \/ Tidy
  \/ FailMigrate \/ KillMigrate \/ Interrupt \/ Restore

MigrateSpec == MigrateInit /\ [][MigrateNext]_migrateVars
-----------------------------------------------------------------------------
MigrateTypeOK ==
  /\ require \subseteq {"old", "new"}
  /\ files \in [GoFile -> Contents] /\ memory \in [GoFile -> Contents]
  /\ walked \cup toWrite \cup refused \subseteq GoFile
  /\ confirm \in {"unknown", "all", "ignore"}
  /\ handler \in {"none", "started", "ready", "gone"}
  /\ closed \in BOOLEAN
  /\ stops \in 0 .. MaxStops

(* A run that ends well leaves nothing of the old module, in go.mod or in  *)
(* any file, and no file torn, wherever earlier runs broke off, and go.mod *)
(* requires the new one if a file needs it.  After every step a file on    *)
(* disk calls builder exactly if it imports it, and what it calls of other *)
(* packages is as it was; but for the files for which the developer said   *)
(* no, whose calls are renamed all the same, and for two that have the     *)
(* replacement: one that calls builderx other than to initialise a         *)
(* variable of the package, and one that initialises such a variable by    *)
(* the FieldNames of another package.                                      *)
Agrees(c) ==
  /\ c.direct # "none" => (c.direct = "builder" <=> c.builderx = "builder")
  /\ c.elsewhere => c.builderx # "builder"
  /\ c.others # "RawFieldNames"

MigratedWhole ==
  /\ stage = "done" =>
       /\ "old" \notin require /\ \A f \in GoFile : ~Needs(files[f], "old") /\ files[f] # Torn
       /\ "new" \in require <=> \E f \in GoFile : Needs(files[f], "new")
  /\ \A f \in GoFile \ refused :
       \/ Agrees(files[f])
       \/ /\ files[f].builderx = "builder" /\ files[f].direct # "builderx"
          /\ files[f].elsewhere \/ files[f].others # "none"
=============================================================================
