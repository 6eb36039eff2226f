----------------------------- MODULE ReportRelay -----------------------------
(***************************************************************************)
(* What the SecurityManager promises to whoever reads its output topic,    *)
(* with nothing of how it does it: security clients number the detection   *)
(* reports they publish 1, 2, 3, ...; the relay hands on some of them.  It *)
(* may leave reports out (every DDS history on the way keeps one sample),  *)
(* but it never makes one up, never hands one on twice and never hands on  *)
(* an older report of a client after a newer one of the same client.  The  *)
(* way of samples into a security client's observation store makes the     *)
(* same promise (CollectionPass).                                          *)
(***************************************************************************)
EXTENDS Naturals, Sequences

CONSTANT Clients  \* the security clients

VARIABLES published,  \* [Clients -> Nat]: how many reports each client published
          relayed     \* the reports handed on, in order: a history variable

vars == <<published, relayed>>

Report == [from : Clients, seq : Nat]

TypeOK == /\ published \in [Clients -> Nat]
          /\ relayed \in Seq(Report)

Init == /\ published = [c \in Clients |-> 0]
        /\ relayed = <<>>

\* Report n of client c is newer than every report of c in log.
Newer(log, c, n) == \A i \in 1..Len(log) : log[i].from = c => log[i].seq < n

Publish(c) == /\ published' = [published EXCEPT ![c] = @ + 1]
              /\ UNCHANGED relayed

Relay(c, n) == /\ n \in 1..published[c]
               /\ Newer(relayed, c, n)
               /\ relayed' = Append(relayed, [from |-> c, seq |-> n])
               /\ UNCHANGED published

Next == \E c \in Clients : \/ Publish(c)
                           \/ \E n \in 1..published[c] : Relay(c, n)

Spec == Init /\ [][Next]_vars

\* Every report handed on was published: the relay makes nothing up.
NoFabrication == \A i \in 1..Len(relayed) :
                    relayed[i].seq \in 1..published[relayed[i].from]

\* The reports of one client are handed on in the order it published them,
\* each at most once (the inequality is strict).
InOrder == \A i, j \in 1..Len(relayed) :
              i < j /\ relayed[i].from = relayed[j].from
                 => relayed[i].seq < relayed[j].seq
==============================================================================
