------------------------------ MODULE ErrorChain ------------------------------
(***************************************************************************)
(* What happens to an error on its way out of a generated service: the     *)
(* interceptors of main.tpl (I18n, Metrics, Log, Module, Domain,           *)
(* GRPCStatus, from the handler outwards) annotate one *errcode.Err in     *)
(* place and send it.  Requests run concurrently, and requests whose       *)
(* repository read was the same singleflight call hold the same *Err:      *)
(* GetOrLoad returns the loader's error verbatim to all of them.           *)
(*                                                                         *)
(* A string of the heap is two words, its data pointer and its length,     *)
(* and is not written atomically.  A text is named by the locale file it   *)
(* comes from; Origin is the text the error was made with.                 *)
(***************************************************************************)
CONSTANTS Request,    \* goroutines that serve requests
          Object,     \* addresses of *errcode.Err values
          Tag,        \* language tags clients send
          English,    \* the fallback tag
          BaseOf,     \* BaseOf[l]: l without its region (zh-CN: zh)
          Code,       \* business codes, 0 excluded
          Table       \* Table[l]: the codes that l.json has a text for

NoCode == "0"         \* the code of a transport error
Origin == "origin"
Unset  == "unset"     \* the empty domain
Here   == "here"      \* localDomain
There  == "there"     \* the domain of a downstream service
NoErr  == "nil"
Raw    == "raw"       \* an error that is not an *errcode.Err

Texts   == Tag \cup {Origin}
Domains == {Unset, Here, There}

ASSUME ErrorChainAssumption ==
  /\ English \in Tag
  /\ BaseOf \in [Tag -> Tag]
  /\ Table \in [Tag -> SUBSET Code]
  /\ NoCode \notin Code
  /\ Origin \notin Tag
  /\ {NoErr, Raw} \cap Object = {}

Words(S) == [ptr : S, len : S]
Str(x) == [ptr |-> x, len |-> x]

VARIABLES
  pc,     \* pc[r]: the interceptor r's error is in
  lang,   \* lang[r]: the language r's client asked for
  err,    \* err[r]: the error r carries
  heap,   \* heap[o]: the fields of the *Err at o, and who was handed it
  wire,   \* wire[r]: the status.Message read so far
  end,    \* end[r]: how the request ended
  sent    \* sent[r]: the error r's client got, once end[r] is "error"

vars == <<pc, lang, err, heap, wire, end, sent>>

PC == {"idle", "handler", "i18n", "text", "text_ptr", "text_len", "log",
       "domain", "stamp_ptr", "stamp_len", "stamp", "status", "detail"}

Errs == [code : Code \cup {NoCode}, msg : Words(Texts), domain : Words(Domains),
         from : {Here, There}, holders : SUBSET Request]

(* A panic is recovered by the framework, whose answer is its own.         *)
Ends == {"open", "ok", "error", "panic"}

Answers == [code : Code \cup {NoCode}, text : Words(Texts), domain : Words(Domains)]

NoAnswer == [code |-> NoCode, text |-> Str(Origin), domain |-> Str(Unset)]

NewErr == [code |-> NoCode, msg |-> Str(Origin), domain |-> Str(Unset),
           from |-> Here, holders |-> {}]

Init ==
  /\ pc = [r \in Request |-> "idle"]
  /\ lang = [r \in Request |-> English]
  /\ err = [r \in Request |-> NoErr]
  /\ heap = [o \in Object |-> NewErr]
  /\ wire = [r \in Request |-> Str(Origin)]
  /\ end = [r \in Request |-> "open"]
  /\ sent = [r \in Request |-> NoAnswer]

Goto(r, where) == pc' = [pc EXCEPT ![r] = where]

Ended(r, how) == Goto(r, "idle") /\ end' = [end EXCEPT ![r] = how]
-----------------------------------------------------------------------------
(* A new request: what the last one left behind is garbage.                *)
Arrive(r, l) ==
  /\ pc[r] = "idle"
  /\ Goto(r, "handler")
  /\ lang' = [lang EXCEPT ![r] = l]
  /\ err' = [err EXCEPT ![r] = NoErr]
  /\ heap' = [o \in Object |->
                IF \A q \in Request \ {r} : err[q] # o THEN NewErr ELSE heap[o]]
  /\ end' = [end EXCEPT ![r] = "open"]
  /\ sent' = [sent EXCEPT ![r] = NoAnswer]
  /\ UNCHANGED wire

(* A nil error passes every interceptor.                                   *)
Succeed(r) ==
  /\ pc[r] = "handler"
  /\ Ended(r, "ok")
  /\ UNCHANGED <<lang, err, heap, wire, sent>>

Free(o) == \A r \in Request : err[r] # o

(* An errcode.Newf: by the handler, by ValidateInterceptor, or by a dao    *)
(* under a singleflight call that the requests of C share.  Only errors of *)
(* this service's dao are shared.                                          *)
Fail(C, o, c, d) ==
  /\ \A r \in C : pc[r] = "handler"
  /\ Free(o)
  /\ (\E r \in C : C = {r}) \/ (c # NoCode /\ d = Unset)
  /\ heap' = [heap EXCEPT ![o] =
                [code |-> c, msg |-> Str(Origin), domain |-> Str(d),
                 from |-> IF d = There THEN There ELSE Here, holders |-> C]]
  /\ err' = [r \in Request |-> IF r \in C THEN o ELSE err[r]]
  /\ pc' = [r \in Request |-> IF r \in C THEN "i18n" ELSE pc[r]]
  /\ UNCHANGED <<lang, wire, end, sent>>

FailRaw(r) ==
  /\ pc[r] = "handler"
  /\ err' = [err EXCEPT ![r] = Raw]
  /\ Goto(r, "log")
  /\ UNCHANGED <<lang, heap, wire, end, sent>>
-----------------------------------------------------------------------------
(* Bundle.lookup: the tag, its base language, English.                     *)
Lookup(l, c) ==
  IF c \in Table[l] THEN l
  ELSE IF c \in Table[BaseOf[l]] THEN BaseOf[l]
  ELSE IF c \in Table[English] THEN English
  ELSE Origin

(* Comparing a domain with localDomain reads its data when the lengths are *)
(* the same, and the data pointer may not have been stored yet.            *)
Faults(d) == d.len = Here /\ d.ptr = Unset

IsLocalAlways(d) == TRUE                   \* wrong: translates any error
IsLocal(d) == d.len = Unset \/ d = Str(Here)

(* I18nInterceptor decides whether to translate.                           *)
I18n(r) ==
  LET e == heap[err[r]]
      translates == /\ e.code # NoCode
                    /\ IsLocal(e.domain)
                    /\ Lookup(lang[r], e.code) # Origin
  IN /\ pc[r] = "i18n"
     /\ IF e.code # NoCode /\ Faults(e.domain)
        THEN Ended(r, "panic")
        ELSE Goto(r, IF translates THEN "text" ELSE "log") /\ UNCHANGED end
     /\ UNCHANGED <<lang, err, heap, wire, sent>>

(* WithMsg: the two words of msg, in the order the compiler chose.         *)
WithMsg(r) ==
  LET o == err[r]
      t == Lookup(lang[r], heap[o].code)
  IN /\ \/ /\ pc[r] \in {"text", "text_ptr"}
           /\ heap' = [heap EXCEPT ![o].msg.ptr = t]
           /\ Goto(r, IF pc[r] = "text" THEN "text_len" ELSE "log")
        \/ /\ pc[r] \in {"text", "text_len"}
           /\ heap' = [heap EXCEPT ![o].msg.len = t]
           /\ Goto(r, IF pc[r] = "text" THEN "text_ptr" ELSE "log")
     /\ UNCHANGED <<lang, err, wire, end, sent>>

(* MetricsInterceptor and LogInterceptor change nothing that is sent,      *)
(* except that a raw error panics here.                                    *)
Log(r) ==
  /\ pc[r] = "log"
  /\ IF err[r] = Raw
     THEN Ended(r, "panic")
     ELSE Goto(r, "domain") /\ UNCHANGED end
  /\ UNCHANGED <<lang, err, heap, wire, sent>>

(* DomainInterceptor tests the domain, then stamps it: again two words.    *)
NeedsStampAlways(d) == TRUE                \* wrong: attributes all to itself
NeedsStamp(d) == d.len = Unset

Domain(r) ==
  /\ pc[r] = "domain"
  /\ Goto(r, IF NeedsStamp(heap[err[r]].domain) THEN "stamp" ELSE "status")
  /\ UNCHANGED <<lang, err, heap, wire, end, sent>>

WithDomain(r) ==
  /\ \/ /\ pc[r] \in {"stamp", "stamp_ptr"}
        /\ heap' = [heap EXCEPT ![err[r]].domain.ptr = Here]
        /\ Goto(r, IF pc[r] = "stamp" THEN "stamp_len" ELSE "status")
     \/ /\ pc[r] \in {"stamp", "stamp_len"}
        /\ heap' = [heap EXCEPT ![err[r]].domain.len = Here]
        /\ Goto(r, IF pc[r] = "stamp" THEN "stamp_ptr" ELSE "status")
  /\ UNCHANGED <<lang, err, wire, end, sent>>

(* ToGRPCStatus copies the message, then the code and the domain.          *)
StatusNew(r) ==
  /\ pc[r] = "status"
  /\ wire' = [wire EXCEPT ![r] = heap[err[r]].msg]
  /\ Goto(r, "detail")
  /\ UNCHANGED <<lang, err, heap, end, sent>>

WithDetails(r) ==
  LET e == heap[err[r]] IN
  /\ pc[r] = "detail"
  /\ IF Faults(e.domain)
     THEN Ended(r, "panic") /\ UNCHANGED sent
     ELSE /\ Ended(r, "error")
          /\ sent' = [sent EXCEPT ![r] =
                        [code |-> e.code, text |-> wire[r], domain |-> e.domain]]
  /\ wire' = [wire EXCEPT ![r] = Str(Origin)]
  /\ UNCHANGED <<lang, err, heap>>
-----------------------------------------------------------------------------
Step(r) ==
  \/ Succeed(r) \/ FailRaw(r) \/ I18n(r) \/ WithMsg(r) \/ Log(r) \/ Domain(r)
  \/ WithDomain(r) \/ StatusNew(r) \/ WithDetails(r)

Next ==
  \/ \E r \in Request : Step(r)
  \/ \E r \in Request : \E l \in Tag : Arrive(r, l)
  \/ \E C \in (SUBSET Request) \ {{}} : \E o \in Object :
       \E c \in Code \cup {NoCode} : \E d \in {Unset, There} : Fail(C, o, c, d)

Spec == Init /\ [][Next]_vars
-----------------------------------------------------------------------------
(* Every variable stays in its domain, and who is past the handler carries *)
(* an *Err; a raw error gets no further than LogInterceptor.               *)
TypeOK ==
  /\ pc \in [Request -> PC]
  /\ lang \in [Request -> Tag]
  /\ err \in [Request -> Object \cup {NoErr, Raw}]
  /\ heap \in [Object -> Errs]
  /\ wire \in [Request -> Words(Texts)]
  /\ end \in [Request -> Ends]
  /\ sent \in [Request -> Answers]
  /\ \A r \in Request :
       pc[r] \notin {"idle", "handler"} =>
         err[r] \in Object \/ (pc[r] = "log" /\ err[r] = Raw)

(* The text a client should get: a transport error and an error of a       *)
(* downstream service as they came, an error of this service in the        *)
(* client's language as far as the locale files have it.                   *)
Expected(r) ==
  LET e == heap[err[r]] IN
  IF e.code = NoCode \/ e.from = There THEN Origin ELSE Lookup(lang[r], e.code)

Answered(r) == end[r] = "error"

Alone(r) == heap[err[r]].holders = {r}

(* "I18nInterceptor translates business error messages to the client's     *)
(* language": every answer is in the language of the client it goes to.    *)
InClientLanguage ==
  \A r \in Request : Answered(r) => sent[r].text = Str(Expected(r))

(* What of it holds whatever the other requests do: an error that was      *)
(* handed to one request only is answered in its client's language, a      *)
(* downstream error with the text it came with.                            *)
OwnErrorInClientLanguage ==
  \A r \in Request :
    Answered(r) /\ Alone(r) => sent[r].text = Str(Expected(r))

(* An error that was handed to one request only is attributed to the       *)
(* service that produced it, on the wire (DomainInterceptor), and such an  *)
(* error never makes its request panic.                                    *)
OwnErrorAttributed ==
  \A r \in Request : err[r] \in Object /\ Alone(r) =>
    /\ end[r] # "panic"
    /\ Answered(r) => sent[r].domain = Str(heap[err[r]].from)
=============================================================================
