-------------------------- MODULE ErrorChainProofs --------------------------
(***************************************************************************)
(* Proofs about ErrorChain for every set of requests, objects, languages   *)
(* and codes: an error that one request alone was handed leaves the        *)
(* service in its client's language and under the right domain, however    *)
(* its interceptors are interleaved with those of other requests.          *)
(***************************************************************************)
EXTENDS ErrorChain, TLAPS

(* Whoever carries an error is among those it was handed to.               *)
HoldersKnown == \A r \in Request : err[r] \in Object => r \in heap[err[r]].holders

(* The text and the domain of an error that r alone holds, at every stage  *)
(* of the chain.                                                           *)
DomainStage(r) ==
  LET d == heap[err[r]].domain
      f == heap[err[r]].from
  IN /\ pc[r] \in {"i18n", "text", "text_ptr", "text_len", "log", "domain"} =>
          d = Str(IF f = There THEN There ELSE Unset)
     /\ pc[r] = "stamp" => f = Here /\ d = Str(Unset)
     /\ pc[r] = "stamp_len" => f = Here /\ d.ptr = Here
     /\ pc[r] = "stamp_ptr" => f = Here /\ d.len = Here
     /\ pc[r] \in {"status", "detail"} => d = Str(f)
     /\ pc[r] = "idle" => end[r] = "error" /\ sent[r].domain = Str(f)

Translates(r) ==
  heap[err[r]].code # NoCode /\ heap[err[r]].from = Here

TextStage(r) ==
  LET m == heap[err[r]].msg IN
     /\ pc[r] = "i18n" => m = Str(Origin)
     /\ pc[r] \in {"text", "text_ptr", "text_len"} => Translates(r)
     /\ pc[r] = "text_len" => m.ptr = Expected(r)
     /\ pc[r] = "text_ptr" => m.len = Expected(r)
     /\ pc[r] \in {"log", "domain", "stamp", "stamp_ptr", "stamp_len", "status"} =>
          m = Str(Expected(r))
     /\ pc[r] = "detail" => wire[r] = Str(Expected(r))
     /\ pc[r] = "idle" => sent[r].text = Str(Expected(r))

Own(r) == err[r] \in Object /\ Alone(r) =>
            pc[r] # "handler" /\ DomainStage(r) /\ TextStage(r)

(* A request that is still in the chain has not ended, and one that ended  *)
(* with an error has one.                                                  *)
Open == \A r \in Request : /\ pc[r] # "idle" => end[r] = "open"
                           /\ end[r] = "error" => err[r] \in Object

Inv == TypeOK /\ HoldersKnown /\ Open /\ \A r \in Request : Own(r)

USE DEF Unset, Here, There

-----------------------------------------------------------------------------
LEMMA LookupType ==
  ASSUME NEW l \in Tag, NEW c
  PROVE  Lookup(l, c) \in Texts
BY ErrorChainAssumption DEF Lookup, Texts

LEMMA InitInv == Init => Inv
<1> SUFFICES ASSUME Init PROVE Inv
    OBVIOUS
<1>1. NewErr \in Errs /\ NoAnswer \in Answers /\ Str(Origin) \in Words(Texts)
    BY DEF NewErr, NoAnswer, Errs, Answers, Words, Str, Texts, Domains
<1>2. TypeOK
    BY <1>1, ErrorChainAssumption DEF Init, TypeOK, PC, Ends
<1>3. \A r \in Request : err[r] \notin Object
    BY ErrorChainAssumption DEF Init
<1>4. Open
    BY DEF Open, Init
<1>5. QED
    BY <1>2, <1>3, <1>4 DEF Inv, HoldersKnown, Own

(* A step that leaves alone what Own reads of q preserves it.              *)
LEMMA Untouched ==
  ASSUME NEW q \in Request, Own(q),
         pc'[q] = pc[q], lang'[q] = lang[q], err'[q] = err[q],
         wire'[q] = wire[q], end'[q] = end[q], sent'[q] = sent[q],
         err[q] \in Object => heap'[err[q]] = heap[err[q]]
  PROVE  Own(q)'
BY DEF Own, Alone, DomainStage, TextStage, Translates, Expected

(* So does a step of r that writes only the object r carries, for every    *)
(* other q: had q the same object, it would not be alone with it.          *)
LEMMA OthersUntouched ==
  ASSUME Inv, NEW r \in Request, NEW q \in Request, q # r,
         pc'[q] = pc[q], lang'[q] = lang[q], err'[q] = err[q],
         wire'[q] = wire[q], end'[q] = end[q], sent'[q] = sent[q],
         err[r] \in Object,
         \A o \in Object : heap'[o].holders = heap[o].holders,
         \A o \in Object \ {err[r]} : heap'[o] = heap[o]
  PROVE  Own(q)'
<1>1. CASE err[q] = err[r]
  <2>1. {q, r} \subseteq heap[err[q]].holders
      BY <1>1 DEF Inv, HoldersKnown
  <2>2. ~Alone(q)'
      BY <1>1, <2>1 DEF Alone
  <2>3. QED
      BY <2>2 DEF Own
<1>2. CASE err[q] # err[r]
    BY <1>2, Untouched DEF Inv
<1>3. QED
    BY <1>1, <1>2
-----------------------------------------------------------------------------
LEMMA ArriveInv ==
  ASSUME Inv, NEW r \in Request, NEW l \in Tag, Arrive(r, l)
  PROVE  Inv'
<1> USE DEF Arrive, Goto
<1>1. NewErr \in Errs /\ NoAnswer \in Answers
    BY DEF NewErr, NoAnswer, Errs, Answers, Words, Str, Texts, Domains
<1>2. TypeOK'
    BY <1>1, ErrorChainAssumption DEF Inv, TypeOK, PC, Ends
<1>3. err'[r] \notin Object
    BY ErrorChainAssumption DEF Inv, TypeOK
<1>4. ASSUME NEW q \in Request, q # r
      PROVE  /\ err'[q] = err[q]
             /\ err[q] \in Object => heap'[err[q]] = heap[err[q]]
    BY <1>4 DEF Inv, TypeOK
<1>5. HoldersKnown'
    BY <1>3, <1>4 DEF Inv, HoldersKnown
<1>6. Open'
    BY <1>4 DEF Inv, TypeOK, Open
<1>7. ASSUME NEW q \in Request PROVE Own(q)'
  <2>1. CASE q = r
      BY <1>3, <2>1 DEF Own
  <2>2. CASE q # r
      BY <1>4, <2>2, Untouched DEF Inv, TypeOK
  <2>3. QED
      BY <2>1, <2>2
<1>8. QED
    BY <1>2, <1>5, <1>6, <1>7 DEF Inv

LEMMA FailInv ==
  ASSUME Inv, NEW C \in SUBSET Request, NEW o \in Object,
         NEW c \in Code \cup {NoCode}, NEW d \in {Unset, There}, Fail(C, o, c, d)
  PROVE  Inv'
<1> DEFINE new == [code |-> c, msg |-> Str(Origin), domain |-> Str(d),
                   from |-> IF d = There THEN There ELSE Here, holders |-> C]
<1>1. new \in Errs
    BY DEF Errs, Words, Str, Texts, Domains
<1>2. /\ heap' = [heap EXCEPT ![o] = new]
      /\ err' = [r \in Request |-> IF r \in C THEN o ELSE err[r]]
      /\ pc' = [r \in Request |-> IF r \in C THEN "i18n" ELSE pc[r]]
      /\ UNCHANGED <<lang, wire, end, sent>>
      /\ \A r \in Request : err[r] # o
      /\ \A r \in C : pc[r] = "handler"
    BY DEF Fail, Free
<1> HIDE DEF new
<1>3. TypeOK'
    BY <1>1, <1>2 DEF Inv, TypeOK, PC
<1>4. heap'[o] = new /\ \A p \in Object \ {o} : heap'[p] = heap[p]
    BY <1>2 DEF Inv, TypeOK
<1>5. HoldersKnown'
    BY <1>2, <1>4 DEF Inv, TypeOK, HoldersKnown, new
<1>6. Open'
    BY <1>2 DEF Inv, TypeOK, Open
<1>7. ASSUME NEW q \in Request PROVE Own(q)'
  <2>1. CASE q \in C
    <3>1. pc'[q] = "i18n" /\ err'[q] = o
        BY <1>2, <2>1 DEF Inv, TypeOK
    <3>2. heap'[err'[q]] = new
        BY <1>4, <3>1
    <3>3. QED
        BY <3>1, <3>2 DEF Own, DomainStage, TextStage, new
  <2>2. CASE q \notin C
    <3>1. pc'[q] = pc[q] /\ err'[q] = err[q]
        BY <1>2, <2>2 DEF Inv, TypeOK
    <3>2. err[q] \in Object => heap'[err[q]] = heap[err[q]]
        BY <1>2, <1>4
    <3>3. QED
        BY <1>2, <3>1, <3>2, Untouched DEF Inv
  <2>3. QED
      BY <2>1, <2>2
<1>8. QED
    BY <1>3, <1>5, <1>6, <1>7 DEF Inv

(* Where err is not an object or does not change hands, and heap is left   *)
(* alone.                                                                  *)
LEMMA QuietInv ==
  ASSUME Inv, NEW r \in Request,
         Succeed(r) \/ FailRaw(r) \/ I18n(r) \/ Log(r) \/ Domain(r)
         \/ StatusNew(r) \/ WithDetails(r)
  PROVE  /\ TypeOK' /\ HoldersKnown' /\ Open'
         /\ \A q \in Request \ {r} : Own(q)'
<1>1. heap' = heap /\ lang' = lang
    BY DEF Succeed, FailRaw, I18n, Log, Domain, StatusNew, WithDetails
<1>2. \A q \in Request \ {r} :
        /\ pc'[q] = pc[q] /\ err'[q] = err[q] /\ wire'[q] = wire[q]
        /\ end'[q] = end[q] /\ sent'[q] = sent[q]
    BY DEF Inv, TypeOK, Succeed, FailRaw, I18n, Log, Domain, StatusNew,
           WithDetails, Ended, Goto
<1>3. TypeOK'
  <2>1. CASE Succeed(r)
      BY <2>1 DEF Inv, TypeOK, Succeed, Ended, Goto, PC, Ends
  <2>2. CASE FailRaw(r)
      BY <2>2 DEF Inv, TypeOK, FailRaw, Goto, PC
  <2>3. CASE I18n(r)
      BY <2>3 DEF Inv, TypeOK, I18n, Ended, Goto, PC, Ends
  <2>4. CASE Log(r)
    <3>1. CASE err[r] = Raw
        BY <2>4, <3>1 DEF Inv, TypeOK, Log, Ended, Goto, PC, Ends
    <3>2. CASE err[r] # Raw
        BY <2>4, <3>2 DEF Inv, TypeOK, Log, Goto, PC
    <3>3. QED
        BY <3>1, <3>2
  <2>5. CASE Domain(r)
      BY <2>5 DEF Inv, TypeOK, Domain, Goto, PC
  <2>6. CASE StatusNew(r)
    <3>1. heap[err[r]] \in Errs
        BY <2>6 DEF Inv, TypeOK, StatusNew
    <3>2. heap[err[r]].msg \in Words(Texts)
        BY <3>1 DEF Errs
    <3>3. QED
        BY <2>6, <3>2 DEF Inv, TypeOK, StatusNew, Goto, PC
  <2>7. CASE WithDetails(r)
    <3>1. heap[err[r]] \in Errs /\ wire[r] \in Words(Texts)
        BY <2>7 DEF Inv, TypeOK, WithDetails
    <3>2. [code |-> heap[err[r]].code, text |-> wire[r],
           domain |-> heap[err[r]].domain] \in Answers
        BY <3>1 DEF Errs, Answers
    <3>3. Str(Origin) \in Words(Texts)
        BY DEF Str, Words, Texts
    <3>4. sent' \in [Request -> Answers] /\ wire' \in [Request -> Words(Texts)]
        BY <2>7, <3>2, <3>3 DEF Inv, TypeOK, WithDetails
    <3>5. QED
        BY <2>7, <3>4 DEF Inv, TypeOK, WithDetails, Ended, Goto, PC, Ends
  <2>8. QED
      BY <2>1, <2>2, <2>3, <2>4, <2>5, <2>6, <2>7
<1>4. err'[r] = err[r] \/ err'[r] \notin Object
    BY ErrorChainAssumption
    DEF Inv, TypeOK, Succeed, FailRaw, I18n, Log, Domain, StatusNew, WithDetails
<1>5. HoldersKnown'
    BY <1>1, <1>2, <1>4 DEF Inv, HoldersKnown
<1>6. Open'
  <2>1. /\ pc'[r] # "idle" => end'[r] = "open"
        /\ end'[r] = "error" => err'[r] \in Object
      BY DEF Inv, TypeOK, Open, Succeed, FailRaw, I18n, Log, Domain, StatusNew,
             WithDetails, Ended, Goto
  <2>2. QED
      BY <1>2, <2>1 DEF Inv, Open
<1>7. \A q \in Request \ {r} : Own(q)'
    BY <1>1, <1>2, Untouched DEF Inv
<1>8. QED
    BY <1>3, <1>5, <1>6, <1>7
-----------------------------------------------------------------------------
(* The steps of r on an error it alone holds.                              *)

LEMMA I18nOwn ==
  ASSUME Inv, NEW r \in Request, I18n(r)
  PROVE  Own(r)'
<1> SUFFICES ASSUME err[r] \in Object, Alone(r) PROVE Own(r)'
    BY DEF I18n, Own, Alone
<1>1. DomainStage(r) /\ TextStage(r)
    BY DEF Inv, Own
<1>2. heap[err[r]] \in Errs
    BY DEF Inv, TypeOK
<1>3. ~Faults(heap[err[r]].domain)
    BY <1>1 DEF I18n, DomainStage, Faults, Str
<1>4. pc'[r] \in {"text", "log"} /\ UNCHANGED <<lang, err, heap, wire, sent>>
    BY <1>3 DEF Inv, TypeOK, I18n, Goto
<1>5. DomainStage(r)'
    BY <1>1, <1>4 DEF DomainStage, I18n
<1>6. heap[err[r]].from \in {Here, There}
    BY <1>2 DEF Errs
<1>7. IsLocal(heap[err[r]].domain) <=> heap[err[r]].from = Here
    BY <1>1, <1>6 DEF DomainStage, I18n, IsLocal, Str
<1>8. pc'[r] = IF /\ heap[err[r]].code # NoCode
                  /\ IsLocal(heap[err[r]].domain)
                  /\ Lookup(lang[r], heap[err[r]].code) # Origin
               THEN "text" ELSE "log"
    BY <1>3 DEF Inv, TypeOK, I18n, Goto
<1>9. TextStage(r)'
    BY <1>1, <1>4, <1>6, <1>7, <1>8 DEF TextStage, Translates, Expected, I18n
<1>10. QED
    BY <1>4, <1>5, <1>9 DEF Own

LEMMA WithMsgInv ==
  ASSUME Inv, NEW r \in Request, WithMsg(r)
  PROVE  Inv'
<1> DEFINE o == err[r]
           t == Lookup(lang[r], heap[o].code)
<1>1. o \in Object /\ heap[o] \in Errs /\ heap[o].msg \in Words(Texts)
    BY DEF Inv, TypeOK, WithMsg, Errs
<1>2. t \in Texts
    BY LookupType DEF Inv, TypeOK
<1>3. PICK m \in Words(Texts) :
        /\ heap' = [heap EXCEPT ![o] = [heap[o] EXCEPT !.msg = m]]
        /\ \/ /\ pc[r] = "text" /\ pc'[r] = "text_len"
              /\ m = [heap[o].msg EXCEPT !.ptr = t]
           \/ /\ pc[r] = "text_ptr" /\ pc'[r] = "log"
              /\ m = [heap[o].msg EXCEPT !.ptr = t]
           \/ /\ pc[r] = "text" /\ pc'[r] = "text_ptr"
              /\ m = [heap[o].msg EXCEPT !.len = t]
           \/ /\ pc[r] = "text_len" /\ pc'[r] = "log"
              /\ m = [heap[o].msg EXCEPT !.len = t]
  <2>1. CASE /\ pc[r] \in {"text", "text_ptr"}
             /\ heap' = [heap EXCEPT ![o].msg.ptr = t]
             /\ Goto(r, IF pc[r] = "text" THEN "text_len" ELSE "log")
    <3>1. [heap[o].msg EXCEPT !.ptr = t] \in Words(Texts)
        BY <1>1, <1>2 DEF Words
    <3>2. heap' = [heap EXCEPT ![o] =
                    [heap[o] EXCEPT !.msg = [heap[o].msg EXCEPT !.ptr = t]]]
        BY <2>1
    <3>3. \/ pc[r] = "text" /\ pc'[r] = "text_len"
          \/ pc[r] = "text_ptr" /\ pc'[r] = "log"
        BY <2>1 DEF Goto, Inv, TypeOK
    <3>4. QED
        BY <3>1, <3>2, <3>3
  <2>2. CASE /\ pc[r] \in {"text", "text_len"}
             /\ heap' = [heap EXCEPT ![o].msg.len = t]
             /\ Goto(r, IF pc[r] = "text" THEN "text_ptr" ELSE "log")
    <3>1. [heap[o].msg EXCEPT !.len = t] \in Words(Texts)
        BY <1>1, <1>2 DEF Words
    <3>2. heap' = [heap EXCEPT ![o] =
                    [heap[o] EXCEPT !.msg = [heap[o].msg EXCEPT !.len = t]]]
        BY <2>2
    <3>3. \/ pc[r] = "text" /\ pc'[r] = "text_ptr"
          \/ pc[r] = "text_len" /\ pc'[r] = "log"
        BY <2>2 DEF Goto, Inv, TypeOK
    <3>4. QED
        BY <3>1, <3>2, <3>3
  <2>3. QED
      BY <2>1, <2>2 DEF WithMsg
<1>4. /\ UNCHANGED <<lang, err, wire, end, sent>>
      /\ \E w \in PC : pc' = [pc EXCEPT ![r] = w]
    BY DEF WithMsg, Goto, PC
<1> HIDE DEF t
<1>5. heap'[o] = [heap[o] EXCEPT !.msg = m]
    BY <1>1, <1>3 DEF Inv, TypeOK
<1>6. heap'[o] \in Errs
    BY <1>1, <1>5 DEF Errs
<1>7. \A p \in Object \ {o} : heap'[p] = heap[p]
    BY <1>3 DEF Inv, TypeOK
<1>8. \A p \in Object : heap'[p].holders = heap[p].holders
    BY <1>1, <1>5, <1>7 DEF Errs
<1>9. TypeOK'
  <2>1. heap' \in [Object -> Errs]
      BY <1>3, <1>6, <1>7 DEF Inv, TypeOK
  <2>2. pc' \in [Request -> PC]
      BY <1>4 DEF Inv, TypeOK
  <2>3. \A q \in Request :
          pc'[q] \notin {"idle", "handler"} =>
            err'[q] \in Object \/ (pc'[q] = "log" /\ err'[q] = Raw)
      BY <1>1, <1>4 DEF Inv, TypeOK
  <2>4. QED
      BY <1>4, <2>1, <2>2, <2>3 DEF Inv, TypeOK
<1>10. HoldersKnown'
    BY <1>4, <1>8 DEF Inv, HoldersKnown
<1>11. Open'
  <2>1. pc[r] # "idle"
      BY DEF WithMsg
  <2>2. QED
      BY <1>4, <2>1 DEF Inv, TypeOK, Open
<1>12. ASSUME NEW q \in Request, q # r PROVE Own(q)'
    BY <1>1, <1>4, <1>7, <1>8, <1>12, OthersUntouched DEF Inv, TypeOK
<1>13. Own(r)'
  <2> SUFFICES ASSUME Alone(r) PROVE Own(r)'
      BY <1>1, <1>4, <1>8 DEF Own, Alone
  <2>1. DomainStage(r) /\ TextStage(r)
      BY <1>1 DEF Inv, Own
  <2>2. /\ heap'[o].domain = heap[o].domain
        /\ heap'[o].from = heap[o].from
        /\ heap'[o].code = heap[o].code
        /\ heap'[o].msg = m
      BY <1>1, <1>5 DEF Errs
  <2>3. DomainStage(r)'
      BY <1>3, <1>4, <2>1, <2>2 DEF DomainStage
  <2>4. Translates(r) /\ Expected(r) = t
      BY <1>3, <2>1 DEF TextStage, Translates, Expected, t
  <2>5. Translates(r)' /\ Expected(r)' = t
      BY <1>4, <2>2, <2>4 DEF Translates, Expected, t
  <2>6. pc'[r] = "log" => m = Str(t)
    <3>1. CASE pc[r] = "text_ptr" /\ m = [heap[o].msg EXCEPT !.ptr = t]
        BY <1>1, <2>1, <2>4, <3>1 DEF TextStage, Str, Words
    <3>2. CASE pc[r] = "text_len" /\ m = [heap[o].msg EXCEPT !.len = t]
        BY <1>1, <2>1, <2>4, <3>2 DEF TextStage, Str, Words
    <3>3. QED
        BY <1>3, <3>1, <3>2
  <2>7. (pc'[r] = "text_len" => m.ptr = t) /\ (pc'[r] = "text_ptr" => m.len = t)
      BY <1>1, <1>3 DEF Words
  <2>8. TextStage(r)'
      BY <1>3, <1>4, <2>2, <2>5, <2>6, <2>7 DEF TextStage
  <2>9. QED
      BY <1>3, <2>3, <2>8 DEF Own
<1>14. QED
    BY <1>9, <1>10, <1>11, <1>12, <1>13 DEF Inv
-----------------------------------------------------------------------------
LEMMA WithDomainInv ==
  ASSUME Inv, NEW r \in Request, WithDomain(r)
  PROVE  Inv'
<1> DEFINE o == err[r]
<1>1. o \in Object /\ heap[o] \in Errs /\ heap[o].domain \in Words(Domains)
    BY DEF Inv, TypeOK, WithDomain, Errs
<1>2. PICK e \in Words(Domains) :
        /\ heap' = [heap EXCEPT ![o] = [heap[o] EXCEPT !.domain = e]]
        /\ \/ /\ pc[r] = "stamp" /\ pc'[r] = "stamp_len"
              /\ e = [heap[o].domain EXCEPT !.ptr = Here]
           \/ /\ pc[r] = "stamp_ptr" /\ pc'[r] = "status"
              /\ e = [heap[o].domain EXCEPT !.ptr = Here]
           \/ /\ pc[r] = "stamp" /\ pc'[r] = "stamp_ptr"
              /\ e = [heap[o].domain EXCEPT !.len = Here]
           \/ /\ pc[r] = "stamp_len" /\ pc'[r] = "status"
              /\ e = [heap[o].domain EXCEPT !.len = Here]
  <2>1. CASE /\ pc[r] \in {"stamp", "stamp_ptr"}
             /\ heap' = [heap EXCEPT ![err[r]].domain.ptr = Here]
             /\ Goto(r, IF pc[r] = "stamp" THEN "stamp_len" ELSE "status")
    <3>1. [heap[o].domain EXCEPT !.ptr = Here] \in Words(Domains)
        BY <1>1 DEF Words, Domains
    <3>2. heap' = [heap EXCEPT ![o] =
                    [heap[o] EXCEPT !.domain = [heap[o].domain EXCEPT !.ptr = Here]]]
        BY <2>1
    <3>3. \/ pc[r] = "stamp" /\ pc'[r] = "stamp_len"
          \/ pc[r] = "stamp_ptr" /\ pc'[r] = "status"
        BY <2>1 DEF Goto, Inv, TypeOK
    <3>4. QED
        BY <3>1, <3>2, <3>3
  <2>2. CASE /\ pc[r] \in {"stamp", "stamp_len"}
             /\ heap' = [heap EXCEPT ![err[r]].domain.len = Here]
             /\ Goto(r, IF pc[r] = "stamp" THEN "stamp_ptr" ELSE "status")
    <3>1. [heap[o].domain EXCEPT !.len = Here] \in Words(Domains)
        BY <1>1 DEF Words, Domains
    <3>2. heap' = [heap EXCEPT ![o] =
                    [heap[o] EXCEPT !.domain = [heap[o].domain EXCEPT !.len = Here]]]
        BY <2>2
    <3>3. \/ pc[r] = "stamp" /\ pc'[r] = "stamp_ptr"
          \/ pc[r] = "stamp_len" /\ pc'[r] = "status"
        BY <2>2 DEF Goto, Inv, TypeOK
    <3>4. QED
        BY <3>1, <3>2, <3>3
  <2>3. QED
      BY <2>1, <2>2 DEF WithDomain
<1>3. /\ UNCHANGED <<lang, err, wire, end, sent>>
      /\ \E w \in PC : pc' = [pc EXCEPT ![r] = w]
    BY DEF WithDomain, Goto, PC
<1>4. heap'[o] = [heap[o] EXCEPT !.domain = e]
    BY <1>1, <1>2 DEF Inv, TypeOK
<1>5. heap'[o] \in Errs
    BY <1>1, <1>4 DEF Errs
<1>6. \A p \in Object \ {o} : heap'[p] = heap[p]
    BY <1>2 DEF Inv, TypeOK
<1>7. \A p \in Object : heap'[p].holders = heap[p].holders
    BY <1>1, <1>4, <1>6 DEF Errs
<1>8. TypeOK'
  <2>1. heap' \in [Object -> Errs]
      BY <1>2, <1>5, <1>6 DEF Inv, TypeOK
  <2>2. pc' \in [Request -> PC]
      BY <1>3 DEF Inv, TypeOK
  <2>3. \A q \in Request :
          pc'[q] \notin {"idle", "handler"} =>
            err'[q] \in Object \/ (pc'[q] = "log" /\ err'[q] = Raw)
      BY <1>1, <1>3 DEF Inv, TypeOK
  <2>4. QED
      BY <1>3, <2>1, <2>2, <2>3 DEF Inv, TypeOK
<1>9. HoldersKnown'
    BY <1>3, <1>7 DEF Inv, HoldersKnown
<1>10. Open'
  <2>1. pc[r] # "idle"
      BY DEF WithDomain
  <2>2. QED
      BY <1>3, <2>1 DEF Inv, TypeOK, Open
<1>11. ASSUME NEW q \in Request, q # r PROVE Own(q)'
    BY <1>1, <1>3, <1>6, <1>7, <1>11, OthersUntouched DEF Inv, TypeOK
<1>12. Own(r)'
  <2> SUFFICES ASSUME Alone(r) PROVE Own(r)'
      BY <1>1, <1>3, <1>7 DEF Own, Alone
  <2>1. DomainStage(r) /\ TextStage(r)
      BY <1>1 DEF Inv, Own
  <2>2. /\ heap'[o].msg = heap[o].msg
        /\ heap'[o].from = heap[o].from
        /\ heap'[o].code = heap[o].code
        /\ heap'[o].domain = e
      BY <1>1, <1>4 DEF Errs
  <2>3. Expected(r)' = Expected(r)
      BY <1>3, <2>2 DEF Expected
  <2>4. TextStage(r)'
      BY <1>2, <1>3, <2>1, <2>2, <2>3 DEF TextStage
  <2>5. heap[o].from = Here
      BY <1>2, <2>1 DEF DomainStage
  <2>6. pc'[r] = "status" => e = Str(Here)
    <3>1. CASE pc[r] = "stamp_ptr" /\ e = [heap[o].domain EXCEPT !.ptr = Here]
        BY <1>1, <2>1, <3>1 DEF DomainStage, Str, Words
    <3>2. CASE pc[r] = "stamp_len" /\ e = [heap[o].domain EXCEPT !.len = Here]
        BY <1>1, <2>1, <3>2 DEF DomainStage, Str, Words
    <3>3. QED
        BY <1>2, <3>1, <3>2
  <2>7. (pc'[r] = "stamp_len" => e.ptr = Here) /\ (pc'[r] = "stamp_ptr" => e.len = Here)
      BY <1>1, <1>2 DEF Words
  <2>8. DomainStage(r)'
      BY <1>2, <1>3, <2>2, <2>5, <2>6, <2>7 DEF DomainStage
  <2>9. QED
      BY <1>2, <2>4, <2>8 DEF Own
<1>13. QED
    BY <1>8, <1>9, <1>10, <1>11, <1>12 DEF Inv
-----------------------------------------------------------------------------
LEMMA QuietOwn ==
  ASSUME Inv, NEW r \in Request,
         Succeed(r) \/ FailRaw(r) \/ Log(r) \/ Domain(r) \/ StatusNew(r)
         \/ WithDetails(r)
  PROVE  Own(r)'
<1>1. CASE FailRaw(r)
  <2>1. err'[r] \notin Object
      BY <1>1, ErrorChainAssumption DEF FailRaw, Inv, TypeOK
  <2>2. QED
      BY <2>1 DEF Own
<1> SUFFICES ASSUME ~FailRaw(r), err[r] \in Object, Alone(r) PROVE Own(r)'
    BY <1>1 DEF Own, Alone, Succeed, Log, Domain, StatusNew, WithDetails
<1>2. pc[r] # "handler" /\ DomainStage(r) /\ TextStage(r)
    BY DEF Inv, Own
<1>3. UNCHANGED <<lang, err, heap>>
    BY DEF Succeed, Log, Domain, StatusNew, WithDetails
<1>4. Expected(r)' = Expected(r)
    BY <1>3 DEF Expected
<1>5. heap[err[r]].from \in {Here, There}
    BY DEF Inv, TypeOK, Errs
<1>6. CASE Succeed(r)
    BY <1>2, <1>6 DEF Succeed
<1>7. CASE Log(r)
  <2>1. err[r] # Raw
      BY ErrorChainAssumption
  <2>2. pc[r] = "log" /\ pc'[r] = "domain"
      BY <1>7, <2>1 DEF Log, Goto, Inv, TypeOK
  <2>3. DomainStage(r)' /\ TextStage(r)'
      BY <1>2, <1>3, <1>4, <2>2 DEF DomainStage, TextStage
  <2>4. QED
      BY <2>2, <2>3 DEF Own
<1>8. CASE Domain(r)
  <2>1. pc[r] = "domain" /\ pc'[r] \in {"stamp", "status"}
      BY <1>8 DEF Domain, Goto, Inv, TypeOK
  <2>2. pc'[r] = "stamp" <=> heap[err[r]].from = Here
      BY <1>2, <1>5, <1>8 DEF Domain, Goto, NeedsStamp, DomainStage, Str, Inv, TypeOK
  <2>3. DomainStage(r)'
      BY <1>2, <1>3, <1>5, <2>1, <2>2 DEF DomainStage
  <2>4. TextStage(r)'
      BY <1>2, <1>3, <1>4, <2>1 DEF TextStage
  <2>5. QED
      BY <2>1, <2>3, <2>4 DEF Own
<1>9. CASE StatusNew(r)
  <2>1. pc[r] = "status" /\ pc'[r] = "detail" /\ wire'[r] = heap[err[r]].msg
      BY <1>9 DEF StatusNew, Goto, Inv, TypeOK
  <2>2. DomainStage(r)' /\ TextStage(r)'
      BY <1>2, <1>3, <1>4, <2>1 DEF DomainStage, TextStage
  <2>3. QED
      BY <2>1, <2>2 DEF Own
<1>10. CASE WithDetails(r)
  <2>1. pc[r] = "detail"
      BY <1>10 DEF WithDetails
  <2>2. ~Faults(heap[err[r]].domain)
      BY <1>2, <1>5, <2>1 DEF DomainStage, Faults, Str
  <2>3. /\ pc'[r] = "idle" /\ end'[r] = "error"
        /\ sent'[r].text = wire[r] /\ sent'[r].domain = heap[err[r]].domain
      BY <1>10, <2>2 DEF WithDetails, Ended, Goto, Inv, TypeOK
  <2>4. DomainStage(r)'
      BY <1>2, <1>3, <2>1, <2>3 DEF DomainStage
  <2>5. TextStage(r)'
      BY <1>2, <1>4, <2>1, <2>3 DEF TextStage
  <2>6. QED
      BY <2>3, <2>4, <2>5 DEF Own
<1>11. QED
    BY <1>6, <1>7, <1>8, <1>9, <1>10

LEMMA NextInv == Inv /\ [Next]_vars => Inv'
<1> SUFFICES ASSUME Inv, [Next]_vars PROVE Inv'
    OBVIOUS
<1>1. CASE UNCHANGED vars
  <2>1. TypeOK' /\ HoldersKnown' /\ Open'
      BY <1>1 DEF vars, Inv, TypeOK, HoldersKnown, Open
  <2>2. \A r \in Request : Own(r)'
      BY <1>1, Untouched DEF vars, Inv
  <2>3. QED
      BY <2>1, <2>2 DEF Inv
<1>2. ASSUME NEW r \in Request, Step(r) PROVE Inv'
  <2>1. CASE Succeed(r) \/ FailRaw(r) \/ I18n(r) \/ Log(r) \/ Domain(r)
             \/ StatusNew(r) \/ WithDetails(r)
      BY <2>1, QuietInv, QuietOwn, I18nOwn DEF Inv
  <2>2. QED
      BY <1>2, <2>1, WithMsgInv, WithDomainInv DEF Step
<1>3. QED
    BY <1>1, <1>2, ArriveInv, FailInv DEF Next

THEOREM Invariance == Spec => []Inv
<1>1. QED
    BY InitInv, NextInv, PTL DEF Spec

(* Every variable of the error chain stays in its domain.                  *)
THEOREM ChainTypeCorrect == Spec => []TypeOK
<1>1. Inv => TypeOK
    BY DEF Inv
<1>2. QED
    BY <1>1, Invariance, PTL

(* An error that one request alone was handed is answered in the language  *)
(* of its client, and a downstream error with the text it came with.       *)
THEOREM OwnErrorTranslated == Spec => []OwnErrorInClientLanguage
<1>1. Inv => OwnErrorInClientLanguage
  <2> SUFFICES ASSUME Inv, NEW r \in Request, Answered(r), Alone(r)
               PROVE  sent[r].text = Str(Expected(r))
      BY DEF OwnErrorInClientLanguage
  <2>1. pc[r] = "idle" /\ err[r] \in Object
      BY DEF Inv, Open, Answered
  <2>2. QED
      BY <2>1 DEF Inv, Own, TextStage
<1>2. QED
    BY <1>1, Invariance, PTL

(* An error that one request alone was handed leaves under the domain of   *)
(* the service that produced it, and does not make its request panic.      *)
THEOREM OwnErrorDomain == Spec => []OwnErrorAttributed
<1>1. Inv => OwnErrorAttributed
  <2> SUFFICES ASSUME Inv, NEW r \in Request, err[r] \in Object, Alone(r)
               PROVE  /\ end[r] # "panic"
                      /\ Answered(r) => sent[r].domain = Str(heap[err[r]].from)
      BY DEF OwnErrorAttributed
  <2>1. CASE pc[r] = "idle"
      BY <2>1 DEF Inv, Own, DomainStage
  <2>2. CASE pc[r] # "idle"
      BY <2>2 DEF Inv, Open, Answered
  <2>3. QED
      BY <2>1, <2>2
<1>2. QED
    BY <1>1, Invariance, PTL
=============================================================================
