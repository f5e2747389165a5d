------------------------- MODULE EventPublisherProofs -------------------------
(***************************************************************************)
(* Proofs about EventPublisher, for any numbers of publishers and senders. *)
(***************************************************************************)
EXTENDS EventPublisher, FiniteSetTheorems, TLAPS

(* A sender that somebody closes is open and no longer the shared one, and *)
(* nobody else closes it; an open sender that is not shared is being       *)
(* closed; a process that has ended had nobody at work, and left its       *)
(* sender only if the close of it raised.                                  *)
CloserInv ==
    /\ \A p \in Publishers : pc[p] = "closing" =>
          /\ using[p] \in open /\ using[p] # current
          /\ \A q \in Publishers : pc[q] = "closing" /\ using[q] = using[p] => q = p
    /\ \A s \in open : s # current =>
          \E p \in Publishers : pc[p] = "closing" /\ using[p] = s

ProcessInv ==
    /\ current # None => current \in open /\ (current \in shut => ~serving)
    /\ ~serving => /\ current \in shut \cup {None}
                   /\ \A p \in Publishers : pc[p] = "idle"

IInv == TypeOK /\ CloserInv /\ ProcessInv

-----------------------------------------------------------------------------
(* What a publisher's step does to the publishers.                         *)
LEMMA GoEffect ==
    ASSUME TypeOK, NEW p \in Publishers,
           NEW label \in {"idle", "sending", "closing"},
           NEW sender \in Senders \cup {None}, label = "idle" <=> sender = None,
           Go(p, label, sender)
    PROVE  /\ pc' \in [Publishers -> {"idle", "sending", "closing"}]
           /\ using' \in [Publishers -> Senders \cup {None}]
           /\ \A q \in Publishers : /\ pc'[q] = IF q = p THEN label ELSE pc[q]
                                    /\ using'[q] = IF q = p THEN sender ELSE using[q]
           /\ \A q \in Publishers : pc'[q] = "idle" <=> using'[q] = None
<1>1. /\ pc' \in [Publishers -> {"idle", "sending", "closing"}]
      /\ using' \in [Publishers -> Senders \cup {None}]
  BY DEF TypeOK, Go
<1>2. \A q \in Publishers : /\ pc'[q] = IF q = p THEN label ELSE pc[q]
                            /\ using'[q] = IF q = p THEN sender ELSE using[q]
  BY DEF TypeOK, Go
<1>3. \A q \in Publishers : pc'[q] = "idle" <=> using'[q] = None
  BY <1>2 DEF TypeOK
<1>4. QED
  BY <1>1, <1>2, <1>3

LEMMA InvInit == Init => IInv
  BY PublisherAssumption DEF Init, IInv, TypeOK, CloserInv, ProcessInv

LEMMA PublishStep ==
    ASSUME IInv, NEW p \in Publishers, Publish(p)
    PROVE  IInv'
<1> USE PublisherAssumption DEF IInv
<1>1. pc[p] = "idle" /\ serving /\ UNCHANGED <<serving, busUp, apart>>
  BY DEF Publish
<1>2. CASE current # None
  <2>1. /\ Go(p, "sending", current) /\ current \in Senders
        /\ UNCHANGED <<current, open, shut, dead>>
    BY <1>2 DEF Publish, NeedsSender, TypeOK
  <2>2. TypeOK'
    BY <1>1, <1>2, <2>1, GoEffect DEF TypeOK
  <2>3. \A q \in Publishers : /\ pc'[q] = IF q = p THEN "sending" ELSE pc[q]
                              /\ using'[q] = IF q = p THEN current ELSE using[q]
    BY <1>2, <2>1, GoEffect
  <2>4. CloserInv'
    BY <1>1, <2>1, <2>3 DEF CloserInv
  <2>5. QED
    BY <1>1, <2>1, <2>2, <2>4 DEF ProcessInv
<1>3. CASE current = None
  <2>1. PICK s \in Senders \ Referenced :
          /\ current' = s /\ open' = open \cup {s}
          /\ shut' = shut \ {s} /\ dead' = dead \ {s}
          /\ Go(p, "sending", s)
    BY <1>3 DEF Publish, NeedsSender
  <2>2. s \notin open /\ s # None /\ \A q \in Publishers : using[q] # s
    BY DEF Referenced
  <2>3. TypeOK'
    BY <1>1, <2>1, <2>2, GoEffect DEF TypeOK
  <2>4. \A q \in Publishers : /\ pc'[q] = IF q = p THEN "sending" ELSE pc[q]
                              /\ using'[q] = IF q = p THEN s ELSE using[q]
    BY <2>1, <2>2, GoEffect
  <2>5. None \notin open
    BY DEF TypeOK
  <2>6. CloserInv'
    BY <1>1, <1>3, <2>1, <2>2, <2>4, <2>5 DEF CloserInv
  <2>7. QED
    BY <1>1, <2>1, <2>3, <2>6 DEF ProcessInv
<1>4. QED
  BY <1>2, <1>3

(* A failed send takes out the shared sender, which nobody closes yet.     *)
LEMMA FailStep ==
    ASSUME IInv, NEW p \in Publishers, FailAndReset(p)
    PROVE  IInv'
<1> USE PublisherAssumption DEF IInv
<1> DEFINE label == IF current = None THEN "idle" ELSE "closing"
<1>1. /\ pc[p] = "sending" /\ current' = None
      /\ shut' = shut \cup ({current} \ {None})
      /\ Go(p, label, current)
      /\ UNCHANGED <<open, dead, serving, busUp, apart>>
  BY DEF FailAndReset, SendFails
<1>2. TypeOK'
  BY <1>1, GoEffect DEF TypeOK
<1>3. \A q \in Publishers : /\ pc'[q] = IF q = p THEN label ELSE pc[q]
                            /\ using'[q] = IF q = p THEN current ELSE using[q]
  BY <1>1, GoEffect DEF TypeOK
<1>4. None \notin open
  BY DEF TypeOK
<1>5. CloserInv'
  <2>1. ASSUME NEW q \in Publishers, pc'[q] = "closing"
        PROVE  /\ using'[q] \in open' /\ using'[q] # current'
               /\ \A r \in Publishers :
                    pc'[r] = "closing" /\ using'[r] = using'[q] => r = q
    BY <1>1, <1>3, <1>4, <2>1 DEF CloserInv, ProcessInv
  <2>2. ASSUME NEW s \in open
        PROVE  \E q \in Publishers : pc'[q] = "closing" /\ using'[q] = s
    <3>1. CASE s = current
      BY <1>3, <1>4, <3>1
    <3>2. CASE s # current
      BY <1>1, <1>3, <3>2 DEF CloserInv
    <3>3. QED
      BY <3>1, <3>2
  <2>3. QED
    BY <1>1, <2>1, <2>2 DEF CloserInv
<1>6. ProcessInv'
  BY <1>1 DEF ProcessInv
<1>7. QED
  BY <1>2, <1>5, <1>6

LEMMA SentStep ==
    ASSUME IInv, NEW p \in Publishers, Sent(p)
    PROVE  IInv'
<1> USE PublisherAssumption DEF IInv
<1>1. /\ pc[p] = "sending" /\ Go(p, "idle", None)
      /\ UNCHANGED <<current, open, shut, dead, serving, busUp, apart>>
  BY DEF Sent
<1>2. TypeOK'
  BY <1>1, GoEffect DEF TypeOK
<1>3. \A q \in Publishers : /\ pc'[q] = IF q = p THEN "idle" ELSE pc[q]
                            /\ using'[q] = IF q = p THEN None ELSE using[q]
  BY <1>1, GoEffect
<1>4. CloserInv'
  BY <1>1, <1>3 DEF CloserInv
<1>5. ProcessInv'
  BY <1>1, <1>3 DEF ProcessInv
<1>6. QED
  BY <1>2, <1>4, <1>5

LEMMA CloseStep ==
    ASSUME IInv, NEW p \in Publishers, CloseEnds(p)
    PROVE  IInv'
<1> USE PublisherAssumption DEF IInv
<1>1. /\ pc[p] = "closing" /\ Go(p, "idle", None) /\ open' = open \ {using[p]}
      /\ UNCHANGED <<current, shut, dead, serving, busUp, apart>>
  BY DEF CloseEnds
<1>2. TypeOK'
  BY <1>1, GoEffect DEF TypeOK
<1>3. \A q \in Publishers : /\ pc'[q] = IF q = p THEN "idle" ELSE pc[q]
                            /\ using'[q] = IF q = p THEN None ELSE using[q]
  BY <1>1, GoEffect
<1>4. CloserInv'
  BY <1>1, <1>3 DEF CloserInv
<1>5. ProcessInv'
  BY <1>1, <1>3 DEF CloserInv, ProcessInv
<1>6. QED
  BY <1>2, <1>4, <1>5

(* The process ends when nobody is at work, with one sender at most, which *)
(* is closed unless the close of it raises.                                *)
LEMMA ShutdownStep ==
    ASSUME IInv, Shutdown
    PROVE  IInv'
<1> USE PublisherAssumption DEF IInv
<1>1. /\ serving' = FALSE /\ UNCHANGED <<pc, using, dead, busUp, apart>>
      /\ \A p \in Publishers : pc[p] = "idle"
  BY DEF Shutdown
<1>2. CASE current' = None /\ open' = open \ {current} /\ shut' = shut
  <2>1. open' = {}
    BY <1>1, <1>2 DEF CloserInv
  <2>2. QED
    BY <1>1, <1>2, <2>1 DEF TypeOK, CloserInv, ProcessInv
<1>3. CASE current # None /\ shut' = shut \cup {current}
           /\ UNCHANGED <<current, open>>
  BY <1>1, <1>3 DEF TypeOK, CloserInv, ProcessInv
<1>4. QED
  BY <1>2, <1>3 DEF Shutdown

LEMMA StepKeepsInv == IInv /\ [Next]_vars => IInv'
<1> SUFFICES ASSUME IInv, [Next]_vars
             PROVE  IInv'
  OBVIOUS
<1>1. CASE Start
  BY <1>1, PublisherAssumption
     DEF Start, IInv, TypeOK, CloserInv, ProcessInv
<1>2. CASE BusFails \/ BusRecovers
  <2>1. /\ UNCHANGED <<current, pc, using, open, shut, serving, apart>>
        /\ dead' \in {dead, dead \cup open} /\ busUp' \in BOOLEAN
    BY <1>2 DEF BusFails, BusRecovers
  <2>2. TypeOK'
    BY <2>1 DEF IInv, TypeOK
  <2>3. CloserInv'
    BY <2>1 DEF IInv, CloserInv
  <2>4. ProcessInv'
    BY <2>1 DEF IInv, ProcessInv
  <2>5. QED
    BY <2>2, <2>3, <2>4 DEF IInv
<1>3. CASE UNCHANGED vars
  BY <1>3 DEF vars, IInv, TypeOK, CloserInv, ProcessInv
<1>4. QED
  BY <1>1, <1>2, <1>3, PublishStep, FailStep, SentStep, CloseStep, ShutdownStep
     DEF Next

LEMMA InvSuffices == IInv => NoConnectionLeaks
<1> SUFFICES ASSUME IInv
             PROVE  NoConnectionLeaks
  OBVIOUS
<1>1. ASSUME NEW s \in open \ {current}
      PROVE  Cardinality(Closers(s)) = 1
  <2>1. PICK p \in Publishers : Closers(s) = {p}
    BY DEF IInv, CloserInv, Closers
  <2>2. QED
    BY <2>1, FS_Singleton
<1>2. None \notin open
  BY PublisherAssumption DEF IInv, TypeOK
<1>3. ~serving => open = {current} \ {None} /\ open \subseteq shut
  BY <1>2 DEF IInv, CloserInv, ProcessInv
<1>4. QED
  BY <1>1, <1>3 DEF IInv, ProcessInv, NoConnectionLeaks

(* The globals, the senders and the publishers keep their types.           *)
THEOREM TypeCorrect == Spec => []TypeOK
  BY InvInit, StepKeepsInv, PTL DEF Spec, IInv

(* However publishes, failures, resets and shutdowns overlap, every        *)
(* connection is the shared one or has exactly one publisher to close it,  *)
(* and a process that has ended leaves none but one whose close raised.    *)
THEOREM ConnectionsAreClosed == Spec => []NoConnectionLeaks
  BY InvInit, StepKeepsInv, InvSuffices, PTL DEF Spec
=============================================================================
