-------------------------- MODULE ReportRelay_proofs --------------------------
(***************************************************************************)
(* What follows from the promise of ReportRelay alone.  An implementation  *)
(* inherits it through its refinement.                                     *)
(***************************************************************************)
EXTENDS ReportRelay, TLAPS

IInv == TypeOK /\ NoFabrication /\ InOrder

\* Nothing is published and nothing relayed at first.
LEMMA InitIInv == Init => IInv
BY DEF Init, IInv, TypeOK, Report, NoFabrication, InOrder

\* A publication makes no relayed report wrong.
LEMMA PublishIInv == ASSUME IInv, NEW c \in Clients, Publish(c) PROVE IInv'
BY DEF IInv, TypeOK, Report, NoFabrication, InOrder, Publish

\* A report that is relayed was published and is newer than its client's others.
LEMMA RelayIInv ==
  ASSUME IInv, NEW c \in Clients, NEW n \in 1..published[c], Relay(c, n)
  PROVE  IInv'
<1> DEFINE r == [from |-> c, seq |-> n]
<1>1. r \in Report
  BY DEF IInv, TypeOK, Report
<1>2. TypeOK'
  BY <1>1 DEF IInv, TypeOK, Relay
<1>3. /\ Len(relayed') = Len(relayed) + 1
      /\ \A i \in 1..Len(relayed) : relayed'[i] = relayed[i]
      /\ relayed'[Len(relayed) + 1] = r
  BY <1>1 DEF IInv, TypeOK, Relay
<1>4. NoFabrication'
  BY <1>3, r.seq = n, r.from = c DEF IInv, TypeOK, NoFabrication, Relay
<1>5. InOrder'
  <2> SUFFICES ASSUME NEW i \in 1..Len(relayed'), NEW j \in 1..Len(relayed'), i < j,
                      relayed'[i].from = relayed'[j].from
               PROVE  relayed'[i].seq < relayed'[j].seq
    BY DEF InOrder
  <2>1. Len(relayed) \in Nat
    BY DEF IInv, TypeOK
  <2>2. i \in 1..Len(relayed)
    BY <1>3, <2>1
  <2>3. CASE j \in 1..Len(relayed)
    BY <1>3, <2>2, <2>3 DEF IInv, InOrder
  <2>4. CASE j = Len(relayed) + 1
    BY <1>3, <2>2, <2>4, r.seq = n, r.from = c DEF Relay, Newer
  <2>5. QED
    BY <1>3, <2>1, <2>3, <2>4
<1>6. QED
  BY <1>2, <1>4, <1>5 DEF IInv

\* Every step keeps the invariant.
LEMMA NextIInv == IInv /\ [Next]_vars => IInv'
<1>1. CASE UNCHANGED vars
  BY <1>1 DEF IInv, TypeOK, NoFabrication, InOrder, vars
<1>2. CASE Next
  BY <1>2, PublishIInv, RelayIInv DEF Next
<1>3. QED
  BY <1>1, <1>2

\* Whatever implements ReportRelay hands on only published reports, and those
\* of each client in the order of publication and at most once.
THEOREM RelayCorrect == Spec => [](NoFabrication /\ InOrder)
<1>1. IInv => NoFabrication /\ InOrder
  BY DEF IInv
<1>2. QED
  BY InitIInv, NextIInv, <1>1, PTL DEF Spec
===============================================================================
