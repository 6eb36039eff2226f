-------------------------- MODULE ConfigLoad_proofs --------------------------
(***************************************************************************)
(* Proofs about ConfigReaders and ConfigLoad, for integers of any width    *)
(* and any set of documents.                                               *)
(***************************************************************************)
EXTENDS ConfigLoad, SequenceTheorems, WellFoundedInduction, TLAPS

------------------------------------------------------------------------------
(* The readers of numbers.                                                 *)

\* Narrowing gives a value of the width and keeps every value that fits it.
LEMMA WrapCorrect ==
  ASSUME NEW n \in Int, NEW half \in Nat \ {0}
  PROVE  /\ Wrap(n, half) \in -half..half - 1
         /\ n \in -half..half - 1 => Wrap(n, half) = n
<1>1. (n + half) % (2 * half) \in 0..2 * half - 1
  OBVIOUS
<1>2. ASSUME n \in -half..half - 1
      PROVE  (n + half) % (2 * half) = n + half
  BY <1>2
<1> QED
  BY <1>1, <1>2 DEF Wrap

\* read_int always returns an int; a number, or a text of one, that fits an int is
\* returned unchanged; a text that does not gives the fallback.
LEMMA ReadIntCorrect ==
  ASSUME NEW n \in Int, NEW s, NEW fallback \in IntRange
  PROVE  /\ ReadInt([number |-> n], fallback) \in IntRange
         /\ ReadInt([text |-> s, numeral |-> n], fallback) \in IntRange
         /\ n \in IntRange =>
              /\ ReadInt([text |-> s, numeral |-> n], fallback) = n
              /\ n \in -LongHalf..UlongMax => ReadInt([number |-> n], fallback) = n
         /\ n \notin IntRange => ReadInt([text |-> s, numeral |-> n], fallback) = fallback
<1>1. IntHalf \in Nat \ {0}
  BY WidthAssumption
<1>2. /\ Wrap(n, IntHalf) \in IntRange
      /\ n \in IntRange => Wrap(n, IntHalf) = n
  BY <1>1, WrapCorrect DEF IntRange
<1>3. ReadInt([number |-> n], fallback)
        = IF n \in -LongHalf..UlongMax THEN Wrap(n, IntHalf) ELSE fallback
  BY DEF ReadInt, IsInteger, Is
<1>4. ReadInt([text |-> s, numeral |-> n], fallback) = IF n \in IntRange THEN n ELSE fallback
  BY DEF ReadInt, IsInteger, Is
<1> QED
  BY <1>2, <1>3, <1>4

\* parse_uint always returns an unsigned int, also for a text with a sign.
LEMMA ParseUintInRange ==
  ASSUME NEW n \in Int, NEW s, NEW fallback \in UintRange
  PROVE  /\ ParseUint([number |-> n], fallback) \in UintRange
         /\ ParseUint([text |-> s, numeral |-> n], fallback) \in UintRange
<1>1. IntHalf \in Nat \ {0}
  BY WidthAssumption
<1>2. n % (2 * IntHalf) \in UintRange
  BY <1>1 DEF UintRange
<1> QED
  BY <1>2 DEF ParseUint, IsInteger, Is

------------------------------------------------------------------------------
(* A configuration is handed over only when everything was read.           *)

\* Sections first to last of the documents hold no item that is refused.
ReadIn(d, first, last) ==
  \A n \in first..last : \A k \in DOMAIN d[Sections[n]] :
    ReadItemOf(Sections[n], d[Sections[n]][k]).outcome = "read"

\* In a section the items before the next one were read, after it all of them.
Progress ==
  /\ pc = "items" => /\ section \in 1..7
                     /\ ReadIn(docs, 1, section - 1)
                     /\ \A k \in 1..item - 1 : k \in DOMAIN docs[Sections[section]] =>
                          ReadItemOf(Sections[section], docs[Sections[section]][k]).outcome = "read"
  /\ pc = "policy" => ReadIn(docs, 1, 5)
  /\ pc \in {"commit", "overrides"} => ReadIn(docs, 1, 7)

SectionKeys == RuntimeKeys \cup PolicyKeys
DocsListed == /\ DOMAIN docs = SectionKeys \cup {"client"}
              /\ Document(docs, SectionKeys)

Inv == DocsListed /\ item \in Nat \ {0} /\ Progress

\* The sections by name.
LEMMA SectionsListed ==
  /\ Len(Sections) = 7 /\ DOMAIN Empty = SectionKeys
  /\ \A n \in 1..7 : Sections[n] \in SectionKeys
  /\ \A n \in 1..5 : Sections[n] \in RuntimeKeys
  /\ \A s \in SectionKeys : \E n \in 1..7 : Sections[n] = s
  /\ RuntimeKeys \cap PolicyKeys = {} /\ "client" \notin SectionKeys
<1>1. /\ Len(Sections) = 7
      /\ \A n \in 1..7 : Sections[n] \in SectionKeys
      /\ \A n \in 1..5 : Sections[n] \in RuntimeKeys
      /\ \A s \in SectionKeys : \E n \in 1..7 : Sections[n] = s
      /\ RuntimeKeys \cap PolicyKeys = {} /\ "client" \notin SectionKeys
  BY DEF Sections, SectionKeys, RuntimeKeys, PolicyKeys
<1>2. DOMAIN Empty = SectionKeys
  BY <1>1 DEF Empty
<1> QED
  BY <1>1, <1>2

\* Without documents there is nothing to read.
LEMMA NothingListed ==
  /\ DOMAIN Nothing = SectionKeys \cup {"client"}
  /\ \A s \in SectionKeys : Nothing[s] = <<>> /\ IsList(Nothing[s])
  /\ Document(Nothing, SectionKeys)
<1>1. Nothing = [s \in SectionKeys \cup {"client"} |-> IF s = "client" THEN Absent ELSE <<>>]
  BY SectionsListed DEF Nothing, Empty, Merged
<1>2. DOMAIN <<>> = {}
  OBVIOUS
<1> QED
  BY <1>1, <1>2, SectionsListed DEF IsList, Document

\* Opening the runtime document gives its sections and no policies ...
LEMMA RuntimeOpened ==
  ASSUME NEW d \in RuntimeDocs
  PROVE  LET m == Merged(d, Nothing) IN
           DOMAIN m = SectionKeys \cup {"client"} /\ Document(m, SectionKeys)
<1>1. DOMAIN d = RuntimeKeys \cup {"client"} /\ Document(d, RuntimeKeys)
  BY DocsAssumption
<1>2. \A s \in SectionKeys : Merged(d, Nothing)[s] = IF s \in RuntimeKeys THEN d[s] ELSE Nothing[s]
  BY <1>1, NothingListed, SectionsListed DEF Merged, SectionKeys
<1>3. DOMAIN Merged(d, Nothing) = SectionKeys \cup {"client"}
  BY <1>1, NothingListed DEF Merged, SectionKeys
<1> QED
  BY <1>1, <1>2, <1>3, NothingListed DEF Document

\* ... and opening the policy document leaves the runtime sections alone.
LEMMA PolicyOpened ==
  ASSUME NEW d \in PolicyDocs, DocsListed
  PROVE  LET m == Merged(d, docs) IN
           /\ DOMAIN m = SectionKeys \cup {"client"}
           /\ Document(m, SectionKeys)
           /\ \A s \in RuntimeKeys \cup {"client"} : m[s] = docs[s]
<1>1. DOMAIN d = PolicyKeys /\ Document(d, PolicyKeys)
  BY DocsAssumption
<1>2. \A s \in SectionKeys : Merged(d, docs)[s] = IF s \in PolicyKeys THEN d[s] ELSE docs[s]
  BY <1>1 DEF Merged, DocsListed, SectionKeys
<1>3. DOMAIN Merged(d, docs) = SectionKeys \cup {"client"}
  BY <1>1 DEF Merged, DocsListed, SectionKeys
<1>4. Merged(d, docs)["client"] = docs["client"]
  BY <1>1, SectionsListed DEF Merged, DocsListed, SectionKeys
<1> QED
  BY <1>1, <1>2, <1>3, <1>4, SectionsListed DEF DocsListed, SectionKeys, Document

\* A call that returns leaves an idle loader without documents.
LEMMA ReturnIdle ==
  ASSUME NEW r, Return(r)
  PROVE  Inv'
<1>1. pc' = "idle" /\ docs' = Nothing /\ item' = 1
  BY DEF Return
<1> QED
  BY <1>1, NothingListed DEF Inv, DocsListed, Progress

LEMMA InvInit == Init => Inv
  BY NothingListed DEF Init, Inv, DocsListed, Progress

LEMMA InvStep == Inv /\ [Next]_vars => Inv'
<1> SUFFICES ASSUME Inv, [Next]_vars
             PROVE  Inv'
  OBVIOUS
<1>1. ASSUME NEW o \in Options, Configure(o)
      PROVE  Inv'
  BY <1>1 DEF Configure, locals, Inv, DocsListed, Progress, ReadIn
<1>2. ASSUME NEW o \in Options, NEW c, ConfigureOverride(o, c)
      PROVE  Inv'
  BY <1>2 DEF ConfigureOverride, locals, Inv, DocsListed, Progress, ReadIn
<1>3. CASE Finalize
  BY <1>3 DEF Finalize, locals, Inv, DocsListed, Progress, ReadIn
<1>4. CASE Unreadable
  BY <1>4, ReturnIdle DEF Unreadable
<1>5. CASE OpenRuntime
  <2>1. PICK d \in RuntimeDocs : docs' = Merged(d, Nothing)
    BY <1>5 DEF OpenRuntime
  <2>2. DocsListed'
    BY <2>1, RuntimeOpened DEF DocsListed
  <2>3. pc' = "items" /\ section' = 1 /\ item' = 1
    BY <1>5 DEF OpenRuntime
  <2> QED
    BY <2>2, <2>3 DEF Inv, Progress, ReadIn
<1>6. CASE OpenPolicy
  <2>1. PICK d \in PolicyDocs : docs' = Merged(d, docs)
    BY <1>6 DEF OpenPolicy
  <2>2. DocsListed' /\ \A s \in RuntimeKeys : docs'[s] = docs[s]
    BY <2>1, PolicyOpened DEF DocsListed, Inv
  <2>3. pc = "policy" /\ pc' = "items" /\ section' = 6 /\ item' = 1
    BY <1>6 DEF OpenPolicy, RuntimeSections
  <2>4. ReadIn(docs, 1, 5)
    BY <2>3 DEF Inv, Progress
  <2>5. ReadIn(docs', 1, 5)
    BY <2>2, <2>4, SectionsListed DEF ReadIn
  <2> QED
    BY <2>2, <2>3, <2>5 DEF Inv, Progress
<1>7. CASE LoadItem
  <2>1. /\ pc = "items" /\ pc' = "items" /\ docs' = docs /\ section' = section
        /\ item' = item + 1 /\ Current.outcome = "read"
    BY <1>7 DEF LoadItem, MoreItems
  <2>2. /\ section \in 1..7 /\ item \in Nat \ {0} /\ DocsListed
        /\ ReadIn(docs, 1, section - 1)
        /\ \A k \in 1..item - 1 : k \in DOMAIN docs[Sections[section]] =>
             ReadItemOf(Sections[section], docs[Sections[section]][k]).outcome = "read"
    BY <2>1 DEF Inv, Progress
  <2>3. \A k \in 1..item : k \in DOMAIN docs[Sections[section]] =>
             ReadItemOf(Sections[section], docs[Sections[section]][k]).outcome = "read"
    BY <2>1, <2>2 DEF Current
  <2>4. DocsListed'
    BY <2>1, <2>2 DEF DocsListed
  <2> QED
    BY <2>1, <2>2, <2>3, <2>4 DEF Inv, Progress
<1>8. CASE RejectItem
  BY <1>8, ReturnIdle DEF RejectItem
<1>9. CASE NextSection
  <2>1. /\ pc = "items" /\ item > Len(docs[Sections[section]])
        /\ docs' = docs /\ section' = section + 1 /\ item' = 1
        /\ pc' = IF section = 5 THEN "policy" ELSE IF section = 7 THEN "commit" ELSE "items"
    BY <1>9, SectionsListed DEF NextSection, RuntimeSections
  <2>2. /\ section \in 1..7 /\ item \in Nat \ {0} /\ DocsListed
        /\ ReadIn(docs, 1, section - 1)
        /\ \A k \in 1..item - 1 : k \in DOMAIN docs[Sections[section]] =>
             ReadItemOf(Sections[section], docs[Sections[section]][k]).outcome = "read"
    BY <2>1 DEF Inv, Progress
  <2>3. IsList(docs[Sections[section]])
    BY <2>2, SectionsListed DEF DocsListed, Document
  <2>4. \A k \in DOMAIN docs[Sections[section]] :
             ReadItemOf(Sections[section], docs[Sections[section]][k]).outcome = "read"
    BY <2>1, <2>2, <2>3 DEF IsList
  <2>5. ReadIn(docs, 1, section)
    BY <2>2, <2>4 DEF ReadIn
  <2>6. DocsListed'
    BY <2>1, <2>2 DEF DocsListed
  <2> QED
    BY <2>1, <2>2, <2>5, <2>6 DEF Inv, Progress
<1>10. CASE HandOver
  BY <1>10 DEF HandOver, locals, Inv, DocsListed, Progress
<1>11. CASE ApplyOverrides
  BY <1>11, ReturnIdle DEF ApplyOverrides
<1>12. CASE UNCHANGED vars
  BY <1>12 DEF vars, app, locals, Inv, DocsListed, Progress
<1> QED
  BY <1>1, <1>2, <1>3, <1>4, <1>5, <1>6, <1>7, <1>8, <1>9, <1>10, <1>11, <1>12
  DEF Next, Call, Load

\* A configuration is handed over only if no item of either document was rejected
\* or threw, for any documents: SecurityClientConfigLoader.cpp:546-569.
THEOREM AllOrNothingHolds == Spec => AllOrNothing
<1>1. Inv /\ [Next]_vars => [config_' # config_ => pc = "idle" \/ AllRead(docs)]_vars
  <2> SUFFICES ASSUME Inv, Next, config_' # config_, pc # "idle"
               PROVE  AllRead(docs)
    OBVIOUS
  <2>1. pc \in {"commit", "overrides"}
    BY DEF Next, Call, Load, Configure, ConfigureOverride, Finalize, Unreadable, OpenRuntime,
           OpenPolicy, LoadItem, RejectItem, NextSection, HandOver, ApplyOverrides, app
  <2>2. ReadIn(docs, 1, 7)
    BY <2>1 DEF Inv, Progress
  <2> QED
    BY <2>2, SectionsListed DEF AllRead, ReadIn
<1> QED
  BY <1>1, InvInit, InvStep, PTL DEF Spec, AllOrNothing

------------------------------------------------------------------------------
(* Lists of lists.  The library's induction theorems take an operator; a   *)
(* set of numbers stands for it here.                                      *)

\* The numbers are well ordered by a set of pairs; the library states that with an operator.
LEMMA LessThan ==
  \E R : IsWellFoundedOn(R, Nat) /\ \A x, y \in Nat : x < y => <<x, y>> \in R
<1>1. \A x, y \in Nat : x < y => <<x, y>> \in OpToRel(<, Nat)
  BY DEF OpToRel
<1> QED
  BY <1>1, NatLessThanWellFounded

\* A set of numbers has a least one.
LEMMA Least ==
  ASSUME NEW T \in SUBSET Nat, T # {}
  PROVE  \E m \in T : \A n \in T : m <= n
<1>1. PICK R : IsWellFoundedOn(R, Nat) /\ \A x, y \in Nat : x < y => <<x, y>> \in R
  BY LessThan
<1>2. T \subseteq Nat
  OBVIOUS
<1>3. IsWellFoundedOn(R, Nat)
  BY <1>1
<1>4. PICK m \in T : \A n \in T : ~(<<n, m>> \in R)
  BY <1>2, <1>3, WFMin
<1>5. \A n \in T : ~(n < m) /\ n \in Nat /\ m \in Nat
  BY <1>1, <1>2, <1>4
<1> QED
  BY <1>5

\* Induction, on a set of numbers in place of a predicate.
LEMMA InductionOnSet ==
  ASSUME NEW T \in SUBSET Nat, 0 \in T, \A n \in T : n + 1 \in T
  PROVE  T = Nat
<1>1. SUFFICES ASSUME Nat \ T # {} PROVE FALSE
  OBVIOUS
<1>2. PICK m \in Nat \ T : \A n \in Nat \ T : m <= n
  BY <1>1, Least
<1>3. m - 1 \in T
  BY <1>2
<1> QED
  BY <1>2, <1>3

\* What FlattenSeq computes, for the first n lists of ss.
Flattens(g, n, ss) == g = [i \in 1..n |-> IF i = 1 THEN ss[i] ELSE g[i - 1] \o ss[i]]

\* The same, value by value.
LEMMA FlattensValues ==
  ASSUME NEW ss, NEW n, NEW g
  PROVE  Flattens(g, n, ss) <=>
           /\ g = [i \in 1..n |-> g[i]]
           /\ \A i \in 1..n : g[i] = IF i = 1 THEN ss[i] ELSE g[i - 1] \o ss[i]
<1>1. ASSUME Flattens(g, n, ss)
      PROVE  /\ g = [i \in 1..n |-> g[i]]
             /\ \A i \in 1..n : g[i] = IF i = 1 THEN ss[i] ELSE g[i - 1] \o ss[i]
  <2>1. \A f : f = [i \in 1..n |-> IF i = 1 THEN ss[i] ELSE g[i - 1] \o ss[i]] =>
          /\ f = [i \in 1..n |-> f[i]]
          /\ \A i \in 1..n : f[i] = IF i = 1 THEN ss[i] ELSE g[i - 1] \o ss[i]
    OBVIOUS
  <2> QED
    BY <1>1, <2>1 DEF Flattens
<1>2. ASSUME /\ g = [i \in 1..n |-> g[i]]
             /\ \A i \in 1..n : g[i] = IF i = 1 THEN ss[i] ELSE g[i - 1] \o ss[i]
      PROVE  Flattens(g, n, ss)
  <2>1. [i \in 1..n |-> g[i]] = [i \in 1..n |-> IF i = 1 THEN ss[i] ELSE g[i - 1] \o ss[i]]
    BY <1>2
  <2> QED
    BY <1>2, <2>1, Zenon DEF Flattens
<1> QED
  BY <1>1, <1>2

\* FlattenSeq is what such a function gives for all lists, if there is one ...
LEMMA FlattenUnfolds ==
  ASSUME NEW ss, NEW g, Flattens(g, Len(ss), ss), Len(ss) # 0
  PROVE  \E h : Flattens(h, Len(ss), ss) /\ FlattenSeq(ss) = h[Len(ss)]
<1> DEFINE h == CHOOSE f : f = [i \in 1..Len(ss) |-> IF i = 1 THEN ss[i] ELSE f[i - 1] \o ss[i]]
<1>1. FlattenSeq(ss) = h[Len(ss)]
  BY DEF FlattenSeq
<1>2. h = [i \in 1..Len(ss) |-> IF i = 1 THEN ss[i] ELSE h[i - 1] \o ss[i]]
  BY Zenon DEF Flattens
<1> QED
  BY <1>1, <1>2 DEF Flattens

\* ... which goes on for one more list ...
LEMMA FlattensExtends ==
  ASSUME NEW ss, NEW n \in Nat, NEW g, Flattens(g, n, ss)
  PROVE  \E h : Flattens(h, n + 1, ss) /\ \A i \in 1..n : h[i] = g[i]
<1> DEFINE h == [i \in 1..n + 1 |->
                   IF i \in 1..n THEN g[i] ELSE IF i = 1 THEN ss[i] ELSE g[n] \o ss[i]]
<1>1. \A i \in 1..n : h[i] = g[i] /\ g[i] = IF i = 1 THEN ss[i] ELSE g[i - 1] \o ss[i]
  BY FlattensValues
<1>2. \A i \in 1..n + 1 : h[i] = IF i = 1 THEN ss[i] ELSE h[i - 1] \o ss[i]
  <2> SUFFICES ASSUME NEW i \in 1..n + 1
               PROVE  h[i] = IF i = 1 THEN ss[i] ELSE h[i - 1] \o ss[i]
    OBVIOUS
  <2>1. CASE i \in 1..n
    <3>1. i # 1 => i - 1 \in 1..n
      BY <2>1
    <3>2. i # 1 => h[i - 1] = g[i - 1]
      BY <1>1, <3>1
    <3>3. h[i] = g[i] /\ g[i] = IF i = 1 THEN ss[i] ELSE g[i - 1] \o ss[i]
      BY <1>1, <2>1
    <3> HIDE DEF h
    <3> QED
      BY <3>2, <3>3
  <2>2. CASE i = n + 1
    <3>1. h[n + 1] = IF n + 1 = 1 THEN ss[n + 1] ELSE g[n] \o ss[n + 1]
      OBVIOUS
    <3>2. i - 1 = n /\ (i # 1 => n \in 1..n)
      BY <2>2
    <3>3. i # 1 => h[i - 1] = g[n]
      BY <1>1, <3>2
    <3> HIDE DEF h
    <3> QED
      BY <2>2, <3>1, <3>3
  <2> QED
    BY <2>1, <2>2
<1>3. h = [i \in 1..n + 1 |-> h[i]]
  OBVIOUS
<1> HIDE DEF h
<1>4. Flattens(h, n + 1, ss)
  BY <1>2, <1>3, FlattensValues
<1> QED
  BY <1>1, <1>4

\* ... so that there is one for every number of lists ...
LEMMA FlattensExists ==
  ASSUME NEW ss, NEW n \in Nat
  PROVE  \E g : Flattens(g, n, ss)
<1> DEFINE T == {m \in Nat : \E g : Flattens(g, m, ss)}
<1>1. 0 \in T
  <2> DEFINE e == [i \in 1..0 |-> 0]
  <2>1. Flattens(e, 0, ss)
    BY DEF Flattens
  <2> QED
    BY <2>1
<1>2. ASSUME NEW m \in T PROVE m + 1 \in T
  BY FlattensExtends
<1>3. T = Nat
  <2> HIDE DEF T
  <2>1. T \in SUBSET Nat
    BY DEF T
  <2> QED
    BY <1>1, <1>2, <2>1, InductionOnSet
<1> QED
  BY <1>3

\* ... and only one.
LEMMA FlattensAgree ==
  ASSUME NEW ss, NEW tt, NEW m \in Nat, NEW n \in Nat, m <= n, NEW g, NEW h,
         Flattens(g, m, ss), Flattens(h, n, tt), \A i \in 1..m : ss[i] = tt[i]
  PROVE  \A i \in 1..m : g[i] = h[i]
<1> DEFINE T == {k \in Nat : k \in 1..m => g[k] = h[k]}
<1>1. 0 \in T
  OBVIOUS
<1>2. ASSUME NEW k \in T PROVE k + 1 \in T
  <2> SUFFICES ASSUME k + 1 \in 1..m PROVE g[k + 1] = h[k + 1]
    OBVIOUS
  <2>1. /\ g[k + 1] = IF k + 1 = 1 THEN ss[k + 1] ELSE g[k + 1 - 1] \o ss[k + 1]
        /\ h[k + 1] = IF k + 1 = 1 THEN tt[k + 1] ELSE h[k + 1 - 1] \o tt[k + 1]
    BY FlattensValues
  <2>2. k + 1 - 1 = k /\ (k + 1 # 1 => k \in 1..m)
    OBVIOUS
  <2> QED
    BY <2>1, <2>2
<1>3. T = Nat
  <2> HIDE DEF T
  <2>1. T \in SUBSET Nat
    BY DEF T
  <2> QED
    BY <1>1, <1>2, <2>1, InductionOnSet
<1> QED
  BY <1>3

\* The first n lists of f as one list.
FirstOf(f, n) == FlattenSeq([k \in 1..n |-> f[k]])

\* FlattenSeq of the first n lists is computed in that way.
LEMMA FlattenOf ==
  ASSUME NEW f, NEW n \in Nat, n # 0
  PROVE  \E h : Flattens(h, n, f) /\ FirstOf(f, n) = h[n]
<1> DEFINE ss == [k \in 1..n |-> f[k]]
<1>1. Len(ss) = n
  OBVIOUS
<1>2. \A k \in 1..n : ss[k] = f[k]
  OBVIOUS
<1> HIDE DEF ss
<1>3. PICK g : Flattens(g, n, ss)
  BY FlattensExists
<1>4. PICK h : Flattens(h, n, ss) /\ FlattenSeq(ss) = h[n]
  BY <1>1, <1>3, FlattenUnfolds
<1>5. Flattens(h, n, f)
  BY <1>2, <1>4, FlattensValues
<1> QED
  BY <1>4, <1>5 DEF ss, FirstOf

\* No lists give an empty one,
LEMMA FlattenNone ==
  ASSUME NEW f
  PROVE  FirstOf(f, 0) = <<>>
<1>1. [k \in 1..0 |-> f[k]] = <<>> /\ Len(<<>>) = 0
  OBVIOUS
<1> QED
  BY <1>1 DEF FlattenSeq, FirstOf

\* one more list is appended to what the others gave,
LEMMA FlattenMore ==
  ASSUME NEW f, NEW n \in Nat
  PROVE  FirstOf(f, n + 1)
           = IF n = 0 THEN f[1] ELSE FirstOf(f, n) \o f[n + 1]
<1>1. PICK h : Flattens(h, n + 1, f) /\ FirstOf(f, n + 1) = h[n + 1]
  <2>1. n + 1 \in Nat /\ n + 1 # 0
    OBVIOUS
  <2> QED
    BY <2>1, FlattenOf
<1>2. h[n + 1] = IF n + 1 = 1 THEN f[n + 1] ELSE h[n + 1-1] \o f[n + 1]
  BY <1>1, FlattensValues
<1>3. CASE n = 0
  BY <1>1, <1>2, <1>3
<1>4. CASE n # 0
  <2>1. PICK g : Flattens(g, n, f) /\ FirstOf(f, n) = g[n]
    BY <1>4, FlattenOf
  <2>2. n \in 1..n /\ n <= n + 1 /\ n + 1 \in Nat /\ n + 1 - 1 = n /\ n + 1 # 1
    BY <1>4
  <2>3. g[n] = h[n]
    BY <1>1, <2>1, <2>2, FlattensAgree
  <2> QED
    BY <1>1, <1>2, <1>4, <2>1, <2>2, <2>3
<1> QED
  BY <1>3, <1>4

Firsts(g, n) == [k \in 1..n |-> g[k]]

\* and lists of one element give the list of those elements.
LEMMA FlattenSingletons ==
  ASSUME NEW f, NEW g, NEW n \in Nat, \A k \in 1..n : f[k] = <<g[k]>>
  PROVE  FirstOf(f, n) = Firsts(g, n)
<1> DEFINE T == {m \in Nat : m <= n => FirstOf(f, m) = Firsts(g, m)}
<1>1. 0 \in T
  <2>1. Firsts(g, 0) = <<>>
    BY DEF Firsts
  <2> QED
    BY <2>1, FlattenNone
<1>2. ASSUME NEW m \in T PROVE m + 1 \in T
  <2> SUFFICES ASSUME m + 1 <= n PROVE FirstOf(f, m + 1) = Firsts(g, m + 1)
    OBVIOUS
  <2>1. m \in Nat /\ m <= n /\ FirstOf(f, m) = Firsts(g, m) /\ f[m + 1] = <<g[m + 1]>>
    OBVIOUS
  <2> HIDE DEF T
  <2>2. FirstOf(f, m + 1) = IF m = 0 THEN f[1] ELSE FirstOf(f, m) \o f[m + 1]
    BY <2>1, FlattenMore
  <2>3. CASE m = 0
    <3>1. Firsts(g, 1) = <<g[1]>>
      BY DEF Firsts
    <3> QED
      BY <2>1, <2>2, <2>3, <3>1
  <2>4. CASE m # 0
    <3>1. Firsts(g, m) \o <<g[m + 1]>> = Firsts(g, m + 1)
      BY <2>1 DEF Firsts
    <3> QED
      BY <2>1, <2>2, <2>4, <3>1
  <2> QED
    BY <2>3, <2>4
<1>3. T = Nat
  <2> HIDE DEF T
  <2>1. T \in SUBSET Nat
    BY DEF T
  <2> QED
    BY <1>1, <1>2, <2>1, InductionOnSet
<1> QED
  BY <1>3

------------------------------------------------------------------------------
(* What the readers make of any item.                                      *)

\* An element that a section's reader gives: its numbers fit, and a signal rule names
\* its topic.  The elements of a vendor list are treated as a section of their own.
Fits(s, x) ==
  /\ s \in {"transports", "sinks"} => "domainId" \in DOMAIN x /\ x.domainId \in IntRange
  /\ s = "sources" => x.ttlMs \in Int64Range
  /\ s \in PolicyKeys => RuleNumbers(x)
  /\ s = "vendors" => x \in IntRange
  /\ s = "hostIds" => x.common.topic # ""

\* A list of such elements.
FitList(s, list) == \E S : list \in Seq(S) /\ \A x \in S : Fits(s, x)

\* Such lists, and how they are put together.
LEMMA FitLists ==
  ASSUME NEW s
  PROVE  /\ FitList(s, <<>>)
         /\ \A x : Fits(s, x) => FitList(s, <<x>>)
         /\ \A f, n : n \in Nat /\ (\A k \in 1..n : Fits(s, f[k])) => FitList(s, Firsts(f, n))
         /\ \A a, b : FitList(s, a) /\ FitList(s, b) => FitList(s, a \o b)
         /\ \A a : FitList(s, a) => /\ Len(a) \in Nat /\ DOMAIN a = 1..Len(a)
                                    /\ \A k \in 1..Len(a) : Fits(s, a[k])
<1>1. FitList(s, <<>>)
  <2>1. PICK S : S = {}
    OBVIOUS
  <2>2. <<>> \in Seq(S) /\ \A x \in S : Fits(s, x)
    BY <2>1
  <2> QED
    BY <2>2 DEF FitList
<1>2. ASSUME NEW x, Fits(s, x)
      PROVE  FitList(s, <<x>>)
  <2>1. PICK S : S = {x}
    OBVIOUS
  <2>2. <<x>> \in Seq(S) /\ \A y \in S : Fits(s, y)
    BY <1>2, <2>1
  <2> QED
    BY <2>2 DEF FitList
<1>3. ASSUME NEW f, NEW n \in Nat, \A k \in 1..n : Fits(s, f[k])
      PROVE  FitList(s, Firsts(f, n))
  <2> DEFINE S == {f[k] : k \in 1..n}
  <2>1. Firsts(f, n) \in Seq(S)
    BY SeqDef DEF Firsts
  <2>2. \A x \in S : Fits(s, x)
    BY <1>3
  <2> QED
    BY <2>1, <2>2 DEF FitList
<1>4. ASSUME NEW a, NEW b, FitList(s, a), FitList(s, b)
      PROVE  FitList(s, a \o b)
  <2>1. PICK A : a \in Seq(A) /\ \A x \in A : Fits(s, x)
    BY <1>4 DEF FitList
  <2>2. PICK B : b \in Seq(B) /\ \A x \in B : Fits(s, x)
    BY <1>4 DEF FitList
  <2>3. a \in Seq(A \cup B) /\ b \in Seq(A \cup B)
    BY <2>1, <2>2, SeqDef
  <2>4. a \o b \in Seq(A \cup B) /\ \A x \in A \cup B : Fits(s, x)
    BY <2>1, <2>2, <2>3, ConcatProperties
  <2> QED
    BY <2>4 DEF FitList
<1>5. ASSUME NEW a, FitList(s, a)
      PROVE  /\ Len(a) \in Nat /\ DOMAIN a = 1..Len(a)
             /\ \A k \in 1..Len(a) : Fits(s, a[k])
  <2>1. PICK S : a \in Seq(S) /\ \A x \in S : Fits(s, x)
    BY <1>5 DEF FitList
  <2> QED
    BY <2>1, LenProperties, ElementOfSeq
<1> QED
  BY <1>1, <1>2, <1>3, <1>4, <1>5

\* A list keeps its elements when another one is appended, and an empty one adds none.
LEMMA FitAppend ==
  ASSUME NEW s, NEW a, FitList(s, a)
  PROVE  <<>> \o a = a /\ a = [k \in 1..Len(a) |-> a[k]]
<1>1. PICK S : a \in Seq(S)
  BY DEF FitList
<1> QED
  BY <1>1, SeqDef, LenProperties

\* Lists of elements that fit, put together one after the other.
LEMMA FlattenFits ==
  ASSUME NEW s, NEW f, NEW n \in Nat, \A k \in 1..n : FitList(s, f[k])
  PROVE  FitList(s, FirstOf(f, n))
<1> DEFINE T == {m \in Nat : m <= n => FitList(s, FirstOf(f, m))}
<1>1. 0 \in T
  BY FlattenNone, FitLists
<1>2. ASSUME NEW m \in T PROVE m + 1 \in T
  <2> SUFFICES ASSUME m + 1 <= n PROVE FitList(s, FirstOf(f, m + 1))
    OBVIOUS
  <2>1. m \in Nat /\ m + 1 \in 1..n /\ FitList(s, FirstOf(f, m))
    OBVIOUS
  <2> HIDE DEF T
  <2>2. FitList(s, f[m + 1])
    BY <2>1
  <2>3. FirstOf(f, m + 1) = IF m = 0 THEN f[1] ELSE FirstOf(f, m) \o f[m + 1]
    BY <2>1, FlattenMore
  <2>4. CASE m = 0
    BY <2>2, <2>3, <2>4
  <2>5. CASE m # 0
    BY <2>1, <2>2, <2>3, <2>5, FitLists
  <2> QED
    BY <2>4, <2>5
<1>3. T = Nat
  <2> HIDE DEF T
  <2>1. T \in SUBSET Nat
    BY DEF T
  <2> QED
    BY <1>1, <1>2, <2>1, InductionOnSet
<1> QED
  BY <1>3

\* Whatever a value is, what is read of it fits the member it is stored in.
LEMMA NumbersFit ==
  ASSUME NEW v
  PROVE  /\ ReadInt(v, 0) \in IntRange /\ ParseUint(v, 0) \in UintRange
         /\ ParseInt64(v, 0) \in Int64Range
<1>1. IntHalf \in Nat \ {0} /\ LongHalf \in Nat \ {0}
  BY WidthAssumption
<1>2. 0 \in IntRange /\ 0 \in UintRange /\ 0 \in Int64Range
  BY <1>1 DEF IntRange, UintRange, Int64Range
<1>3. \A n \in Int : /\ Wrap(n, IntHalf) \in IntRange /\ Wrap(n, LongHalf) \in Int64Range
                     /\ n % (2 * IntHalf) \in UintRange
  <2> SUFFICES ASSUME NEW n \in Int
               PROVE  /\ Wrap(n, IntHalf) \in IntRange /\ Wrap(n, LongHalf) \in Int64Range
                      /\ n % (2 * IntHalf) \in UintRange
    OBVIOUS
  <2>1. Wrap(n, IntHalf) \in IntRange /\ Wrap(n, LongHalf) \in Int64Range
    BY <1>1, WrapCorrect DEF IntRange, Int64Range
  <2>2. n % (2 * IntHalf) \in UintRange
    BY <1>1 DEF UintRange
  <2> QED
    BY <2>1, <2>2
<1>4. /\ -LongHalf..UlongMax \subseteq Int /\ -UlongMax..UlongMax \subseteq Int
  BY <1>1 DEF UlongMax
<1>5. ReadInt(v, 0) \in IntRange
  BY <1>2, <1>3, <1>4 DEF ReadInt, IsInteger
<1>6. ParseUint(v, 0) \in UintRange
  BY <1>2, <1>3, <1>4 DEF ParseUint, IsInteger
<1>7. ParseInt64(v, 0) \in Int64Range
  BY <1>2, <1>3, <1>4 DEF ParseInt64, IsInteger
<1> QED
  BY <1>5, <1>6, <1>7

\* The reader of each section.
LEMMA Readers ==
  ASSUME NEW it
  PROVE  /\ ReadItemOf("transports", it) = ReadTransport(it)
         /\ ReadItemOf("sources", it) = ReadSource(it)
         /\ ReadItemOf("detectors", it) = ReadDetector(it)
         /\ ReadItemOf("sinks", it) = ReadSink(it)
         /\ ReadItemOf("handlers", it) = ReadHandler(it)
         /\ ReadItemOf("hostIds", it) = ReadHostTopic(it)
         /\ ReadItemOf("networkIds", it) = ReadNetworkTopic(it)
BY DEF ReadItemOf

\* The numbers of a signal rule fit, and its topic is its item's name.
LEMMA SignalNumbers ==
  ASSUME NEW it, NEW rule
  PROVE  /\ RuleNumbers(SignalRule(it, rule))
         /\ SignalRule(it, rule).common.topic = ReadString(it.name, "")
<1>1. SignalRule(it, rule).common = Rule("signal", ReadString(it.name, ""), rule)
  BY DEF SignalRule
<1> DEFINE c == Rule("signal", ReadString(it.name, ""), rule)
<1>2. c.ruleId \in UintRange /\ c.kind = "signal" /\ c.topic = ReadString(it.name, "")
  BY NumbersFit DEF Rule
<1> HIDE DEF c
<1>3. /\ SignalRule(it, rule).common.ruleId \in UintRange
      /\ SignalRule(it, rule).common.kind = "signal"
      /\ SignalRule(it, rule).common.topic = ReadString(it.name, "")
  BY <1>1, <1>2 DEF c
<1> QED
  BY <1>3 DEF RuleNumbers

\* Both ends of a cycle rule's window are 64-bit integers.
LEMMA CycleNumbers ==
  ASSUME NEW it, NEW rule
  PROVE  RuleNumbers(CycleRule(it, rule))
<1>1. /\ CycleRule(it, rule).common = Rule("cycle", ReadString(it.name, ""), rule)
      /\ CycleRule(it, rule).lowMs = ParseInt64(rule.low, 0)
      /\ CycleRule(it, rule).highMs = ParseInt64(rule.high, 0)
  BY DEF CycleRule
<1>2. ParseInt64(rule.low, 0) \in Int64Range /\ ParseInt64(rule.high, 0) \in Int64Range
  BY NumbersFit
<1> DEFINE c == Rule("cycle", ReadString(it.name, ""), rule)
<1>3. c.ruleId \in UintRange /\ c.kind = "cycle"
  BY NumbersFit DEF Rule
<1> HIDE DEF c
<1>4. CycleRule(it, rule).common.ruleId \in UintRange /\ CycleRule(it, rule).common.kind = "cycle"
  BY <1>1, <1>3 DEF c
<1> QED
  BY <1>1, <1>2, <1>4 DEF RuleNumbers

\* The vendor ids of one element of a list are ints, though they are read as unsigned.
LEMMA VendorsFit ==
  ASSUME NEW v, Is("object", v) => IsList(v["object"])
  PROVE  FitList("vendors", VendorIds(v))
<1>1. \A n \in Int : Fits("vendors", Wrap(n, IntHalf))
  BY WidthAssumption, WrapCorrect DEF Fits, PolicyKeys, IntRange
<1>2. CASE Is("object", v)
  <2> DEFINE f == [k \in DOMAIN v["object"] |-> Wrap(ParseUint(v["object"][k], 0), IntHalf)]
  <2>1. VendorIds(v) = f
    BY <1>2 DEF VendorIds
  <2>2. f = Firsts(f, Len(v["object"])) /\ Len(v["object"]) \in Nat
    BY <1>2 DEF IsList, Firsts
  <2>3. \A k \in 1..Len(v["object"]) : f[k] = Wrap(ParseUint(v["object"][k], 0), IntHalf)
    BY <1>2 DEF IsList
  <2> HIDE DEF f
  <2>4. \A k \in 1..Len(v["object"]) : Fits("vendors", f[k])
    <3> SUFFICES ASSUME NEW k \in 1..Len(v["object"]) PROVE Fits("vendors", f[k])
      OBVIOUS
    <3>1. ParseUint(v["object"][k], 0) \in UintRange
      BY NumbersFit
    <3>2. ParseUint(v["object"][k], 0) \in Int
      BY <3>1, WidthAssumption DEF UintRange
    <3> QED
      BY <1>1, <2>3, <3>2
  <2>5. FitList("vendors", Firsts(f, Len(v["object"])))
    BY <2>2, <2>4, FitLists
  <2> QED
    BY <2>1, <2>2, <2>5
<1>3. CASE ~Is("object", v) /\ IsInteger(v)
  <2>1. VendorIds(v) = <<Wrap(v["number"], IntHalf)>>
    BY <1>3 DEF VendorIds
  <2>2. v["number"] \in Int
    BY <1>3, WidthAssumption DEF IsInteger, UlongMax
  <2> QED
    BY <1>1, <2>1, <2>2, FitLists
<1>4. CASE ~Is("object", v) /\ ~IsInteger(v)
  BY <1>4, FitLists DEF VendorIds
<1> QED
  BY <1>2, <1>3, <1>4

\* What the elements of a vendor list give.
VendorLists(list) == [k \in DOMAIN list |-> VendorIds(list[k])]

LEMMA RtpsNumbers ==
  ASSUME NEW rule, IsVendors(rule.vendors)
  PROVE  RuleNumbers(RtpsRule(rule))
<1> DEFINE list == rule.vendors
           f == VendorLists(list)
<1>1. /\ RtpsRule(rule).common = Rule("rtps", "", rule)
      /\ RtpsRule(rule).vendorIdAllowlist = FlattenSeq(f)
  BY DEF RtpsRule, VendorLists
<1>2. Len(list) \in Nat /\ DOMAIN list = 1..Len(list)
  BY DEF IsVendors, IsList
<1>3. FlattenSeq(f) = FirstOf(f, Len(list))
  <2>1. f = [k \in 1..Len(list) |-> f[k]]
    BY <1>2 DEF VendorLists
  <2> QED
    BY <2>1 DEF FirstOf
<1>4. \A k \in 1..Len(list) : FitList("vendors", f[k])
  <2> SUFFICES ASSUME NEW k \in 1..Len(list) PROVE FitList("vendors", f[k])
    OBVIOUS
  <2>1. f[k] = VendorIds(list[k])
    BY <1>2 DEF VendorLists
  <2>2. Is("object", list[k]) => IsList(list[k]["object"])
    BY <1>2 DEF IsVendors
  <2> QED
    BY <2>1, <2>2, VendorsFit
<1> HIDE DEF f, list
<1>5. FitList("vendors", FlattenSeq(f))
  BY <1>2, <1>3, <1>4, FlattenFits
<1>6. \A k \in DOMAIN FlattenSeq(f) : FlattenSeq(f)[k] \in IntRange
  <2>1. /\ DOMAIN FlattenSeq(f) = 1..Len(FlattenSeq(f))
        /\ \A k \in 1..Len(FlattenSeq(f)) : Fits("vendors", FlattenSeq(f)[k])
    BY <1>5, FitLists
  <2> QED
    BY <2>1 DEF Fits
<1> DEFINE c == Rule("rtps", "", rule)
<1>7. c.ruleId \in UintRange /\ c.kind = "rtps"
  BY NumbersFit DEF Rule
<1> HIDE DEF c
<1>8. RtpsRule(rule).common.ruleId \in UintRange /\ RtpsRule(rule).common.kind = "rtps"
  BY <1>1, <1>7 DEF c
<1> QED
  BY <1>1, <1>6, <1>8 DEF RuleNumbers

\* The rules of a topic fit.
LEMMA HostRulesFit ==
  ASSUME NEW it, IsList(it.rules)
  PROVE  FitList("hostIds", ReadHostTopic(it).items)
<1> DEFINE f == [k \in DOMAIN it.rules |-> SignalRule(it, it.rules[k])]
<1>1. CASE ReadHostTopic(it).items = <<>>
  BY <1>1, FitLists
<1>2. CASE ReadHostTopic(it).items # <<>>
  <2>1. ReadString(it.name, "") # "" /\ ReadHostTopic(it).items = f
    BY <1>2 DEF ReadHostTopic, Read, Rejected
  <2>2. f = Firsts(f, Len(it.rules)) /\ Len(it.rules) \in Nat
    BY DEF IsList, Firsts
  <2>3. \A k \in 1..Len(it.rules) : f[k] = SignalRule(it, it.rules[k])
    BY DEF IsList
  <2> HIDE DEF f
  <2>4. \A k \in 1..Len(it.rules) : Fits("hostIds", f[k])
    <3> SUFFICES ASSUME NEW k \in 1..Len(it.rules) PROVE Fits("hostIds", f[k])
      OBVIOUS
    <3>1. RuleNumbers(f[k]) /\ f[k].common.topic = ReadString(it.name, "")
      <4>1. f[k] = SignalRule(it, it.rules[k])
        BY <2>3
      <4> QED
        BY <4>1, SignalNumbers
    <3> QED
      BY <2>1, <3>1 DEF Fits, PolicyKeys
  <2>5. FitList("hostIds", Firsts(f, Len(it.rules)))
    BY <2>2, <2>4, FitLists
  <2> QED
    BY <2>1, <2>2, <2>5
<1> QED
  BY <1>1, <1>2

LEMMA NetworkRulesFit ==
  ASSUME NEW it, IsList(it.cycle), IsList(it.rtps),
         \A k \in DOMAIN it.rtps : IsVendors(it.rtps[k].vendors)
  PROVE  FitList("networkIds", ReadNetworkTopic(it).items)
<1> DEFINE f == [k \in DOMAIN it.cycle |-> CycleRule(it, it.cycle[k])]
           g == [k \in DOMAIN it.rtps |-> RtpsRule(it.rtps[k])]
<1>1. CASE ReadNetworkTopic(it).items = <<>>
  BY <1>1, FitLists
<1>2. CASE ReadNetworkTopic(it).items # <<>>
  <2>1. ReadNetworkTopic(it).items = f \o g
    BY <1>2 DEF ReadNetworkTopic, Read, Rejected
  <2>2. /\ f = Firsts(f, Len(it.cycle)) /\ Len(it.cycle) \in Nat
        /\ g = Firsts(g, Len(it.rtps)) /\ Len(it.rtps) \in Nat
    BY DEF IsList, Firsts
  <2>3. /\ \A k \in 1..Len(it.cycle) : f[k] = CycleRule(it, it.cycle[k])
        /\ \A k \in 1..Len(it.rtps) : g[k] = RtpsRule(it.rtps[k])
    BY DEF IsList
  <2> HIDE DEF f, g
  <2>4. /\ \A k \in 1..Len(it.cycle) : RuleNumbers(f[k])
        /\ \A k \in 1..Len(it.rtps) : RuleNumbers(g[k])
    <3>1. ASSUME NEW k \in 1..Len(it.cycle)
          PROVE  RuleNumbers(f[k])
      BY <2>3, CycleNumbers
    <3>2. ASSUME NEW k \in 1..Len(it.rtps)
          PROVE  RuleNumbers(g[k])
      <4>1. g[k] = RtpsRule(it.rtps[k])
        BY <2>3
      <4>2. IsVendors(it.rtps[k].vendors)
        BY DEF IsList
      <4> QED
        BY <4>1, <4>2, RtpsNumbers
    <3> QED
      BY <3>1, <3>2
  <2>5. /\ \A k \in 1..Len(it.cycle) : Fits("networkIds", f[k])
        /\ \A k \in 1..Len(it.rtps) : Fits("networkIds", g[k])
    BY <2>4 DEF Fits
  <2>6. FitList("networkIds", f) /\ FitList("networkIds", g)
    <3>1. /\ FitList("networkIds", Firsts(f, Len(it.cycle)))
          /\ FitList("networkIds", Firsts(g, Len(it.rtps)))
      BY <2>2, <2>5, FitLists
    <3> QED
      BY <2>2, <3>1
  <2> QED
    BY <2>1, <2>6, FitLists
<1> QED
  BY <1>1, <1>2

\* An item of the runtime document gives one element when it is read.
LEMMA RuntimeItems ==
  ASSUME NEW it
  PROVE  /\ \E x : /\ ReadItemOf("transports", it).items = <<x>> /\ "domainId" \in DOMAIN x
                   /\ x.id = Name(it.id) /\ x.domainId = ReadInt(it.domain_id, 0)
         /\ LET r == ReadItemOf("sources", it) IN
              \/ r.outcome # "read" /\ r.items = <<>>
              \/ \E x, c : /\ r.items = <<x>>
                           /\ x.ttlMs = IF c THEN ParseInt64(it.ttl_ms, 0) ELSE 0
                           /\ x.transportId = Name(it.transport_id)
                           /\ x.domainId = 0 /\ "domainId" \in DOMAIN x
         /\ LET r == ReadItemOf("sinks", it) IN
              \/ r.outcome # "read" /\ r.items = <<>>
              \/ \E x : /\ r.items = <<x>> /\ "domainId" \in DOMAIN x
                        /\ x.domainId = ReadInt(it.domain_id, 0)
         /\ \A s \in {"detectors", "handlers"} :
              LET r == ReadItemOf(s, it) IN r.items = <<>> \/ \E x : r.items = <<x>>
<1>1. \E x : /\ ReadItemOf("transports", it).items = <<x>> /\ "domainId" \in DOMAIN x
            /\ x.id = Name(it.id) /\ x.domainId = ReadInt(it.domain_id, 0)
  <2> DEFINE x == [id |-> ReadString(it.id, ""), domainId |-> ReadInt(it.domain_id, 0)]
  <2>1. ReadTransport(it) = Read(<<x>>)
    BY DEF ReadTransport
  <2>2. "domainId" \in DOMAIN x /\ x.id = Name(it.id) /\ x.domainId = ReadInt(it.domain_id, 0)
    BY DEF Name
  <2> HIDE DEF x
  <2>3. Read(<<x>>).items = <<x>>
    BY DEF Read
  <2> QED
    BY <2>1, <2>2, <2>3, Readers
<1>2. LET r == ReadItemOf("sources", it) IN
        \/ r.outcome # "read" /\ r.items = <<>>
        \/ \E x, c : /\ r.items = <<x>>
                     /\ x.ttlMs = IF c THEN ParseInt64(it.ttl_ms, 0) ELSE 0
                     /\ x.transportId = Name(it.transport_id)
                     /\ x.domainId = 0 /\ "domainId" \in DOMAIN x
  <2> DEFINE c == it.cache # Absent
             x == [id |-> ReadString(it.id, ""), topic |-> ReadString(it.topic, ""),
                   transportId |-> ReadString(it.transport_id, ""), domainId |-> 0,
                   ttlMs |-> IF c THEN ParseInt64(it.ttl_ms, 0) ELSE 0]
  <2>1. ReadSource(it) = Rejected \/ ReadSource(it) = Read(<<x>>)
    BY DEF ReadSource
  <2>2. /\ x.ttlMs = IF c THEN ParseInt64(it.ttl_ms, 0) ELSE 0
        /\ x.transportId = Name(it.transport_id)
        /\ x.domainId = 0 /\ "domainId" \in DOMAIN x
    BY DEF Name
  <2> HIDE DEF x, c
  <2>3. Read(<<x>>).items = <<x>> /\ Rejected.items = <<>> /\ Rejected.outcome # "read"
    BY DEF Read, Rejected
  <2> QED
    BY <2>1, <2>2, <2>3, Readers
<1>3. LET r == ReadItemOf("sinks", it) IN
        \/ r.outcome # "read" /\ r.items = <<>>
        \/ \E x : /\ r.items = <<x>> /\ "domainId" \in DOMAIN x
                  /\ x.domainId = ReadInt(it.domain_id, 0)
  <2> DEFINE x == [id |-> ReadString(it.id, ""), enabled |-> ReadBool(it.enabled, TRUE),
                   domainId |-> ReadInt(it.domain_id, 0),
                   topic |-> ReadString(it.topic, "DetectionReport")]
  <2>1. ReadSink(it) = Rejected \/ ReadSink(it) = Read(<<x>>)
    BY DEF ReadSink
  <2>2. "domainId" \in DOMAIN x /\ x.domainId = ReadInt(it.domain_id, 0)
    OBVIOUS
  <2> HIDE DEF x
  <2>3. Read(<<x>>).items = <<x>> /\ Rejected.items = <<>> /\ Rejected.outcome # "read"
    BY DEF Read, Rejected
  <2> QED
    BY <2>1, <2>2, <2>3, Readers
<1>4. ReadDetector(it).items = <<>> \/ \E x : ReadDetector(it).items = <<x>>
  <2>1. \/ ReadDetector(it) = Rejected \/ ReadDetector(it) = Threw
        \/ \E x : ReadDetector(it) = Read(<<x>>)
    BY Zenon DEF ReadDetector
  <2> QED
    BY <2>1 DEF Rejected, Threw, Read
<1>5. ReadHandler(it).items = <<>> \/ \E x : ReadHandler(it).items = <<x>>
  <2>1. ReadHandler(it) = Rejected \/ \E x : ReadHandler(it) = Read(<<x>>)
    BY Zenon DEF ReadHandler
  <2> QED
    BY <2>1 DEF Rejected, Read
<1> QED
  BY <1>1, <1>2, <1>3, <1>4, <1>5, Readers

\* The elements that are read fit.
LEMMA ItemsFit ==
  ASSUME NEW s \in SectionKeys, NEW it, WellFormed(s, it)
  PROVE  FitList(s, ReadItemOf(s, it).items)
<1>1. CASE s = "transports"
  <2>1. PICK x : ReadItemOf(s, it).items = <<x>> /\ x.domainId = ReadInt(it.domain_id, 0)
                 /\ "domainId" \in DOMAIN x
    BY <1>1, RuntimeItems
  <2>2. Fits(s, x)
    BY <1>1, <2>1, NumbersFit DEF Fits, PolicyKeys
  <2> QED
    BY <2>1, <2>2, FitLists
<1>2. CASE s = "sources"
  <2>1. \A c, m : (IF c THEN ParseInt64(m, 0) ELSE 0) \in Int64Range
    <3>1. 0 \in Int64Range
      BY WidthAssumption DEF Int64Range
    <3> QED
      BY <3>1, NumbersFit
  <2>2. \/ ReadItemOf(s, it).items = <<>>
        \/ \E x, c : /\ ReadItemOf(s, it).items = <<x>>
                     /\ x.ttlMs = IF c THEN ParseInt64(it.ttl_ms, 0) ELSE 0
    BY <1>2, RuntimeItems
  <2>3. \A x : x.ttlMs \in Int64Range => Fits(s, x)
    BY <1>2 DEF Fits, PolicyKeys
  <2> QED
    BY <2>1, <2>2, <2>3, FitLists
<1>3. CASE s = "detectors"
  <2>1. ReadItemOf(s, it).items = <<>> \/ \E x : ReadItemOf(s, it).items = <<x>>
    BY <1>3, RuntimeItems
  <2>2. \A x : Fits(s, x)
    BY <1>3 DEF Fits, PolicyKeys
  <2> QED
    BY <2>1, <2>2, FitLists
<1>4. CASE s = "sinks"
  <2>1. \/ ReadItemOf(s, it).items = <<>>
        \/ \E x : /\ ReadItemOf(s, it).items = <<x>> /\ "domainId" \in DOMAIN x
                  /\ x.domainId = ReadInt(it.domain_id, 0)
    BY <1>4, RuntimeItems
  <2>2. \A x : "domainId" \in DOMAIN x /\ x.domainId = ReadInt(it.domain_id, 0) => Fits(s, x)
    BY <1>4, NumbersFit DEF Fits, PolicyKeys
  <2> QED
    BY <2>1, <2>2, FitLists
<1>5. CASE s = "handlers"
  <2>1. ReadItemOf(s, it).items = <<>> \/ \E x : ReadItemOf(s, it).items = <<x>>
    BY <1>5, RuntimeItems
  <2>2. \A x : Fits(s, x)
    BY <1>5 DEF Fits, PolicyKeys
  <2> QED
    BY <2>1, <2>2, FitLists
<1>6. CASE s = "hostIds"
  BY <1>6, Readers, HostRulesFit DEF WellFormed
<1>7. CASE s = "networkIds"
  BY <1>7, Readers, NetworkRulesFit DEF WellFormed
<1> QED
  BY <1>1, <1>2, <1>3, <1>4, <1>5, <1>6, <1>7 DEF SectionKeys, RuntimeKeys, PolicyKeys

------------------------------------------------------------------------------
(* Configurations.                                                         *)

Keys == SectionKeys \cup {"client"}

\* f is a function on S.
FcnOn(f, S) == f = [x \in S |-> f[x]]

\* A configuration with sections of elements that fit.
Typed(c) == FcnOn(c, Keys) /\ \A s \in SectionKeys : FitList(s, c[s])

\* What the items of a list give.
ItemsOf(s, list) == [k \in DOMAIN list |-> ReadItemOf(s, list[k]).items]

\* The sections' names are different.
LEMMA SectionsDiffer == \A m, n \in 1..7 : m # n => Sections[m] # Sections[n]
BY DEF Sections

LEMMA DefaultTyped ==
  /\ Typed(DefaultConfig) /\ DefaultConfig["client"] = "security-client-v2"
  /\ \A s \in SectionKeys : DefaultConfig[s] = <<>>
<1>1. DefaultConfig = [x \in Keys |-> IF x = "client" THEN "security-client-v2" ELSE <<>>]
  BY SectionsListed DEF DefaultConfig, Empty, Merged, Keys
<1>2. /\ DefaultConfig["client"] = "security-client-v2"
      /\ \A s \in SectionKeys : DefaultConfig[s] = <<>>
  BY <1>1, SectionsListed DEF Keys
<1>3. \A c : (c = [x \in Keys |-> IF x = "client" THEN "security-client-v2" ELSE <<>>])
             => FcnOn(c, Keys)
  BY DEF FcnOn
<1> QED
  BY <1>1, <1>2, <1>3, FitLists DEF Typed

\* What the launch options make of a sink.
Aimed(o, sink) == IF o.domain = {} THEN sink
                  ELSE [sink EXCEPT !["domainId"] = CHOOSE e \in o.domain : TRUE]

\* What the launch options change.
LEMMA OverriddenParts ==
  ASSUME NEW o, NEW c, Typed(c)
  PROVE  /\ FcnOn(Overridden(o, c), Keys)
         /\ \A s \in SectionKeys : s # "sinks" => Overridden(o, c)[s] = c[s]
         /\ Overridden(o, c)["client"] = IF o.client = "" THEN c["client"] ELSE o.client
         /\ DOMAIN Overridden(o, c)["sinks"] = DOMAIN c["sinks"]
         /\ FcnOn(Overridden(o, c)["sinks"], DOMAIN c["sinks"])
         /\ \A k \in DOMAIN c["sinks"] :
              Overridden(o, c)["sinks"][k] = Aimed(o, c["sinks"][k])
<1> DEFINE client == IF o.client = "" THEN c["client"] ELSE o.client
           sinks == [k \in DOMAIN c["sinks"] |-> Aimed(o, c["sinks"][k])]
<1>1. Overridden(o, c) = [c EXCEPT !["client"] = client, !["sinks"] = sinks]
  BY DEF Overridden, Aimed
<1>2. /\ DOMAIN sinks = DOMAIN c["sinks"] /\ FcnOn(sinks, DOMAIN c["sinks"])
      /\ \A k \in DOMAIN c["sinks"] : sinks[k] = Aimed(o, c["sinks"][k])
  BY DEF FcnOn
<1> HIDE DEF client, sinks
<1>3. c = [x \in Keys |-> c[x]] /\ "client" \in Keys /\ "sinks" \in Keys
      /\ "client" \notin SectionKeys
  BY SectionsListed DEF Typed, FcnOn, Keys, SectionKeys, RuntimeKeys
<1>4. \A b : b = [c EXCEPT !["client"] = client, !["sinks"] = sinks] =>
        /\ FcnOn(b, Keys) /\ b["client"] = client /\ b["sinks"] = sinks
        /\ \A x \in Keys \ {"client", "sinks"} : b[x] = c[x]
  BY <1>3 DEF FcnOn
<1>5. /\ FcnOn(Overridden(o, c), Keys)
      /\ Overridden(o, c)["client"] = client /\ Overridden(o, c)["sinks"] = sinks
      /\ \A x \in Keys \ {"client", "sinks"} : Overridden(o, c)[x] = c[x]
  BY <1>1, <1>4
<1> QED
  BY <1>2, <1>3, <1>5 DEF client, Keys

\* What the configuration has of each sink then.
LEMMA OverriddenSinks ==
  ASSUME NEW o, NEW c, Typed(c), o.domain \subseteq IntRange, \A d, e \in o.domain : d = e
  PROVE  /\ FcnOn(Overridden(o, c)["sinks"], 1..Len(c["sinks"]))
         /\ Len(c["sinks"]) \in Nat
         /\ \A k \in 1..Len(c["sinks"]) :
              /\ Fits("sinks", Overridden(o, c)["sinks"][k])
              /\ \A d \in o.domain : Overridden(o, c)["sinks"][k]["domainId"] = d
<1> DEFINE s == Overridden(o, c)["sinks"]
<1>1. "sinks" \in SectionKeys
  BY DEF SectionKeys, RuntimeKeys
<1>2. FitList("sinks", c["sinks"])
  BY <1>1 DEF Typed
<1>3. /\ Len(c["sinks"]) \in Nat /\ DOMAIN c["sinks"] = 1..Len(c["sinks"])
      /\ \A k \in 1..Len(c["sinks"]) : Fits("sinks", c["sinks"][k])
  BY <1>2, FitLists
<1>4. FcnOn(s, 1..Len(c["sinks"]))
  BY <1>3, OverriddenParts
<1>5. \A k \in 1..Len(c["sinks"]) : s[k] = Aimed(o, c["sinks"][k])
  <2>1. \A k \in DOMAIN c["sinks"] : s[k] = Aimed(o, c["sinks"][k])
    BY OverriddenParts, Zenon
  <2> QED
    BY <1>3, <2>1
<1> HIDE DEF s
<1>6. ASSUME NEW k \in 1..Len(c["sinks"])
      PROVE  Fits("sinks", s[k]) /\ \A d \in o.domain : s[k]["domainId"] = d
  <2>1. "domainId" \in DOMAIN c["sinks"][k] /\ c["sinks"][k]["domainId"] \in IntRange
    BY <1>3 DEF Fits
  <2>2. CASE o.domain = {}
    BY <1>3, <1>5, <2>2 DEF Aimed
  <2>3. CASE o.domain # {}
    <3>1. PICK e \in o.domain : e = CHOOSE d \in o.domain : TRUE
      BY <2>3
    <3>2. s[k] = [c["sinks"][k] EXCEPT !["domainId"] = e]
      BY <1>5, <2>3, <3>1 DEF Aimed
    <3>3. s[k]["domainId"] = e /\ "domainId" \in DOMAIN s[k]
      BY <2>1, <3>2
    <3>4. e \in IntRange /\ \A d \in o.domain : d = e
      BY <3>1
    <3> QED
      BY <3>3, <3>4 DEF Fits, PolicyKeys
  <2> QED
    BY <2>2, <2>3
<1> QED
  BY <1>3, <1>4, <1>6 DEF s

\* The configuration stays one whose elements fit.
LEMMA OverriddenTyped ==
  ASSUME NEW o, NEW c, Typed(c), o.domain \subseteq IntRange, \A d, e \in o.domain : d = e
  PROVE  Typed(Overridden(o, c))
<1> DEFINE b == Overridden(o, c)
<1>0. FcnOn(b, Keys)
  BY OverriddenParts
<1>1. \A s \in SectionKeys : s # "sinks" => b[s] = c[s]
  BY OverriddenParts
<1>2. /\ FcnOn(b["sinks"], 1..Len(c["sinks"])) /\ Len(c["sinks"]) \in Nat
      /\ \A k \in 1..Len(c["sinks"]) : Fits("sinks", b["sinks"][k])
  BY OverriddenSinks
<1> HIDE DEF b
<1>3. FitList("sinks", Firsts(b["sinks"], Len(c["sinks"])))
  BY <1>2, FitLists
<1>4. FitList("sinks", b["sinks"])
  BY <1>2, <1>3 DEF Firsts, FcnOn
<1>5. \A s \in SectionKeys : FitList(s, b[s])
  BY <1>1, <1>4 DEF Typed
<1> QED
  BY <1>0, <1>5 DEF Typed, b

\* Without launch options nothing changes.
LEMMA NothingOverridden == DefaultConfig = Overridden(NoOptions, DefaultConfig)
<1> DEFINE b == Overridden(NoOptions, DefaultConfig)
<1>1. NoOptions.client = "" /\ NoOptions.domain = {}
  BY DEF NoOptions
<1>2. "sinks" \in SectionKeys /\ DefaultConfig["sinks"] = <<>> /\ DOMAIN <<>> = {}
  BY DefaultTyped DEF SectionKeys, RuntimeKeys
<1>3. /\ FcnOn(b, Keys) /\ \A s \in SectionKeys : s # "sinks" => b[s] = DefaultConfig[s]
      /\ b["client"] = DefaultConfig["client"]
      /\ FcnOn(b["sinks"], DOMAIN DefaultConfig["sinks"])
  BY <1>1, DefaultTyped, OverriddenParts
<1> HIDE DEF b
<1>4. b["sinks"] = <<>>
  <2>1. \A g : FcnOn(g, {}) => g = <<>>
    BY DEF FcnOn
  <2> QED
    BY <1>2, <1>3, <2>1
<1>5. \A x \in Keys : b[x] = DefaultConfig[x]
  BY <1>2, <1>3, <1>4 DEF Keys
<1>6. FcnOn(DefaultConfig, Keys)
  BY DefaultTyped DEF Typed
<1>7. \A f, g : FcnOn(f, Keys) /\ FcnOn(g, Keys) /\ (\A x \in Keys : f[x] = g[x]) => f = g
  BY DEF FcnOn
<1> QED
  BY <1>3, <1>5, <1>6, <1>7 DEF b

\* A section of what documents mean, read up to an item.
LEMMA FirstFits ==
  ASSUME NEW s \in SectionKeys, NEW list, IsList(list),
         \A k \in DOMAIN list : WellFormed(s, list[k]),
         NEW n \in 0..Len(list)
  PROVE  FitList(s, FirstOf(ItemsOf(s, list), n))
<1> DEFINE f == ItemsOf(s, list)
<1>1. \A k \in 1..Len(list) : FitList(s, f[k])
  BY ItemsFit DEF IsList, ItemsOf
<1>2. n \in Nat /\ \A k \in 1..n : k \in 1..Len(list)
  BY DEF IsList
<1> HIDE DEF f
<1>3. \A k \in 1..n : FitList(s, f[k])
  BY <1>1, <1>2
<1>4. FitList(s, FirstOf(f, n))
  BY <1>2, <1>3, FlattenFits
<1> QED
  BY <1>4 DEF f

\* What documents mean, section by section.
LEMMA MeaningParts ==
  ASSUME NEW d, Document(d, SectionKeys)
  PROVE  /\ FcnOn(Meaning(d), Keys)
         /\ Meaning(d)["client"] = ReadString(d["client"], "security-client-v2")
         /\ \A s \in SectionKeys : Meaning(d)[s] = FirstOf(ItemsOf(s, d[s]), Len(d[s]))
         /\ Typed(Meaning(d))
<1> DEFINE client == ReadString(d["client"], "security-client-v2")
           flat(s) == FlattenSeq([k \in DOMAIN d[s] |-> ReadItemOf(s, d[s][k]).items])
<1>1. Meaning(d) = Merged([client |-> client], [s \in SectionKeys |-> flat(s)])
  BY SectionsListed DEF Meaning
<1>2. \A s \in SectionKeys : flat(s) = FirstOf(ItemsOf(s, d[s]), Len(d[s]))
  <2> SUFFICES ASSUME NEW s \in SectionKeys
               PROVE  flat(s) = FirstOf(ItemsOf(s, d[s]), Len(d[s]))
    OBVIOUS
  <2>1. DOMAIN d[s] = 1..Len(d[s])
    BY DEF Document, IsList
  <2>2. ItemsOf(s, d[s]) = [k \in 1..Len(d[s]) |-> ItemsOf(s, d[s])[k]]
    BY <2>1 DEF ItemsOf
  <2> QED
    BY <2>2 DEF FirstOf, ItemsOf
<1> HIDE DEF flat, client
<1>3. /\ FcnOn(Meaning(d), Keys) /\ Meaning(d)["client"] = client
      /\ \A s \in SectionKeys : Meaning(d)[s] = flat(s)
  <2>1. \A g : g = Merged([client |-> client], [s \in SectionKeys |-> flat(s)]) =>
          /\ FcnOn(g, Keys) /\ g["client"] = client
          /\ \A s \in SectionKeys : g[s] = flat(s)
    <3>1. DOMAIN [client |-> client] = {"client"} /\ [client |-> client]["client"] = client
      OBVIOUS
    <3> QED
      BY <3>1, SectionsListed DEF Merged, Keys, FcnOn
  <2> QED
    BY <1>1, <2>1
<1>4. \A s \in SectionKeys : Meaning(d)[s] = FirstOf(ItemsOf(s, d[s]), Len(d[s]))
  BY <1>2, <1>3
<1>5. \A s \in SectionKeys : FitList(s, Meaning(d)[s])
  <2> SUFFICES ASSUME NEW s \in SectionKeys PROVE FitList(s, Meaning(d)[s])
    OBVIOUS
  <2>1. /\ IsList(d[s]) /\ Len(d[s]) \in 0..Len(d[s])
        /\ \A k \in DOMAIN d[s] : WellFormed(s, d[s][k])
    BY DEF Document, IsList
  <2> QED
    BY <1>4, <2>1, FirstFits
<1> QED
  BY <1>3, <1>4, <1>5 DEF Typed, client

------------------------------------------------------------------------------
(* What the load has put together at every point of it, and what the       *)
(* configuration means between loads.                                      *)

\* The items of a section that are in loaded.
Done(n) ==
  IF n < section THEN Len(docs[Sections[n]]) ELSE IF n = section THEN item - 1 ELSE 0

LoadedSoFar ==
  pc \in {"items", "policy", "commit"} =>
    /\ loaded["client"] = ReadString(docs["client"], "security-client-v2")
    /\ \A n \in 1..7 :
         /\ Done(n) \in 0..Len(docs[Sections[n]])
         /\ loaded[Sections[n]] = FirstOf(ItemsOf(Sections[n], docs[Sections[n]]), Done(n))

Place ==
  /\ section \in 1..8
  /\ pc = "items" => section # 8
  /\ pc = "policy" => section = 6 /\ item = 1
  /\ pc \in {"commit", "overrides"} => section = 8

\* Between the hand-over and the overrides the configuration is the loaded one.
OneLoad ==
  IF pc = "overrides" THEN config_ = source.config /\ source.options = launchOptions_
  ELSE config_ = Overridden(source.options, source.config)

AllOptions == Options \cup {NoOptions}

Ranges ==
  /\ configured_ \in BOOLEAN /\ calls \in 0..MaxCalls
  /\ launchOptions_ \in AllOptions /\ source.options \in AllOptions
  /\ pc \in {"idle", "runtime", "items", "policy", "commit", "overrides"}
  /\ result \in {"none", "true", "false", "threw"}

AllTyped == Typed(config_) /\ Typed(loaded) /\ Typed(source.config)

ConfInv == Inv /\ Place /\ LoadedSoFar /\ OneLoad /\ Ranges /\ AllTyped

LEMMA OptionsFit ==
  ASSUME NEW o \in AllOptions
  PROVE  o.domain \subseteq IntRange /\ \A d, e \in o.domain : d = e
<1>1. CASE o \in Options
  BY <1>1, OptionsAssumption
<1>2. CASE o = NoOptions
  <2>1. o.domain = {}
    BY <1>2 DEF NoOptions
  <2> QED
    BY <2>1
<1> QED
  BY <1>1, <1>2 DEF AllOptions

LEMMA ConfInvInit == Init => ConfInv
<1> SUFFICES ASSUME Init PROVE ConfInv
  OBVIOUS
<1>1. Inv
  BY InvInit
<1>2. Place /\ LoadedSoFar
  BY DEF Init, Place, LoadedSoFar
<1>3. source.config = DefaultConfig /\ source.options = NoOptions /\ pc = "idle"
      /\ config_ = DefaultConfig /\ loaded = DefaultConfig
  BY DEF Init
<1>4. OneLoad
  BY <1>3, NothingOverridden DEF OneLoad
<1>5. AllTyped
  BY <1>3, DefaultTyped DEF AllTyped
<1>6. Ranges
  <2>1. /\ configured_ \in BOOLEAN /\ calls = 0 /\ launchOptions_ = NoOptions
        /\ result = "none"
    BY DEF Init
  <2> QED
    BY <1>3, <2>1, CallsAssumption DEF Ranges, AllOptions
<1> QED
  BY <1>1, <1>2, <1>4, <1>5, <1>6 DEF ConfInv

\* A call that gives up leaves the configuration alone.
LEMMA GivesUp ==
  ASSUME ConfInv, NEW r \in {"true", "false", "threw"}, Return(r), pc # "overrides",
         UNCHANGED <<app, calls, source>>
  PROVE  (Place /\ LoadedSoFar /\ OneLoad /\ Ranges /\ AllTyped)'
<1>1. pc' = "idle" /\ result' = r /\ section' = 1 /\ item' = 1 /\ loaded' = DefaultConfig
  BY DEF Return
<1>2. /\ config_' = config_ /\ configured_' = configured_ /\ launchOptions_' = launchOptions_
      /\ calls' = calls /\ source' = source
  BY DEF app
<1>3. Place' /\ LoadedSoFar'
  BY <1>1 DEF Place, LoadedSoFar
<1>4. OneLoad'
  BY <1>1, <1>2 DEF ConfInv, OneLoad
<1>5. Ranges'
  BY <1>1, <1>2 DEF ConfInv, Ranges
<1>6. AllTyped'
  BY <1>1, <1>2, DefaultTyped DEF ConfInv, AllTyped
<1> QED
  BY <1>3, <1>4, <1>5, <1>6

\* The calls that hold no file.
LEMMA CallsStep ==
  ASSUME ConfInv, Call
  PROVE  (Place /\ LoadedSoFar /\ OneLoad /\ Ranges /\ AllTyped)'
<1>1. ASSUME NEW o \in Options, Configure(o)
      PROVE  (Place /\ LoadedSoFar /\ OneLoad /\ Ranges /\ AllTyped)'
  <2>1. /\ pc = "idle" /\ pc' = "runtime" /\ result' = "none" /\ launchOptions_' = o
        /\ calls < MaxCalls /\ calls' = calls + 1 /\ section' = section
        /\ config_' = config_ /\ configured_' = configured_ /\ source' = source
        /\ loaded' = loaded
    BY <1>1 DEF Configure, locals
  <2>2. Place' /\ LoadedSoFar'
    BY <2>1 DEF ConfInv, Place, LoadedSoFar
  <2>3. OneLoad'
    BY <2>1 DEF ConfInv, OneLoad
  <2>4. Ranges'
    BY <2>1, CallsAssumption DEF ConfInv, Ranges, AllOptions
  <2>5. AllTyped'
    BY <2>1 DEF ConfInv, AllTyped
  <2> QED
    BY <2>2, <2>3, <2>4, <2>5
<1>2. ASSUME NEW o \in Options, NEW d \in RuntimeDocs,
             ConfigureOverride(o, Meaning(Merged(d, Nothing)))
      PROVE  (Place /\ LoadedSoFar /\ OneLoad /\ Ranges /\ AllTyped)'
  <2> DEFINE c == Meaning(Merged(d, Nothing))
  <2>1. Typed(c)
    BY RuntimeOpened, MeaningParts
  <2> HIDE DEF c
  <2>2. /\ pc = "idle" /\ pc' = "idle" /\ result' = "true" /\ launchOptions_' = o
        /\ calls < MaxCalls /\ calls' = calls + 1 /\ section' = section
        /\ config_' = Overridden(o, c) /\ configured_' = TRUE /\ loaded' = loaded
        /\ source'.config = c /\ source'.options = o
    BY <1>2 DEF ConfigureOverride, locals, c
  <2>3. Place' /\ LoadedSoFar'
    BY <2>2 DEF ConfInv, Place, LoadedSoFar
  <2>4. OneLoad'
    BY <2>2 DEF OneLoad
  <2>5. Ranges'
    BY <2>2, CallsAssumption DEF ConfInv, Ranges, AllOptions
  <2>6. o \in AllOptions
    BY DEF AllOptions
  <2>7. Typed(Overridden(o, c))
    BY <2>1, <2>6, OptionsFit, OverriddenTyped
  <2>8. AllTyped'
    BY <2>1, <2>2, <2>7 DEF ConfInv, AllTyped
  <2> QED
    BY <2>3, <2>4, <2>5, <2>8
<1>3. CASE Finalize
  <2>1. /\ pc = "idle" /\ pc' = "idle" /\ result' = result /\ launchOptions_' = launchOptions_
        /\ calls' = calls /\ section' = section
        /\ config_' = config_ /\ configured_' = FALSE /\ source' = source /\ loaded' = loaded
    BY <1>3 DEF Finalize, locals
  <2>2. Place' /\ LoadedSoFar'
    BY <2>1 DEF ConfInv, Place, LoadedSoFar
  <2>3. OneLoad'
    BY <2>1 DEF ConfInv, OneLoad
  <2>4. Ranges'
    BY <2>1 DEF ConfInv, Ranges
  <2>5. AllTyped'
    BY <2>1 DEF ConfInv, AllTyped
  <2> QED
    BY <2>2, <2>3, <2>4, <2>5
<1> QED
  BY <1>1, <1>2, <1>3 DEF Call

\* The documents that are open, section by section.
LEMMA DocsParts ==
  ASSUME DocsListed
  PROVE  \A n \in 1..7 :
           /\ IsList(docs[Sections[n]]) /\ Len(docs[Sections[n]]) \in Nat
           /\ DOMAIN docs[Sections[n]] = 1..Len(docs[Sections[n]])
           /\ \A k \in DOMAIN docs[Sections[n]] : WellFormed(Sections[n], docs[Sections[n]][k])
BY SectionsListed DEF DocsListed, Document, IsList

\* A file that is opened leaves the options and the configuration alone.
LEMMA OpenRuntimeStep ==
  ASSUME ConfInv, OpenRuntime, Inv'
  PROVE  (Place /\ LoadedSoFar /\ OneLoad /\ Ranges /\ AllTyped)'
<1>1. PICK d \in RuntimeDocs :
        /\ docs' = Merged(d, Nothing)
        /\ loaded' = [DefaultConfig EXCEPT
                        !["client"] = ReadString(d["client"], "security-client-v2")]
  BY DEF OpenRuntime
<1>2. /\ pc = "runtime" /\ pc' = "items" /\ section' = 1 /\ item' = 1
      /\ config_' = config_ /\ configured_' = configured_ /\ launchOptions_' = launchOptions_
      /\ calls' = calls /\ source' = source /\ result' = result
  BY DEF OpenRuntime, app
<1>3. docs'["client"] = d["client"]
  BY <1>1, DocsAssumption DEF Merged
<1>4. /\ FcnOn(loaded', Keys) /\ loaded'["client"] = ReadString(d["client"], "security-client-v2")
      /\ \A s \in SectionKeys : loaded'[s] = <<>>
  <2> DEFINE v == ReadString(d["client"], "security-client-v2")
  <2>1. DefaultConfig = [x \in Keys |-> DefaultConfig[x]] /\ "client" \in Keys
        /\ "client" \notin SectionKeys
    BY DefaultTyped, SectionsListed DEF Typed, FcnOn, Keys
  <2> HIDE DEF v
  <2>2. \A b : b = [DefaultConfig EXCEPT !["client"] = v] =>
          /\ FcnOn(b, Keys) /\ b["client"] = v
          /\ \A x \in Keys \ {"client"} : b[x] = DefaultConfig[x]
    BY <2>1 DEF FcnOn
  <2>3. /\ FcnOn(loaded', Keys) /\ loaded'["client"] = v
        /\ \A x \in Keys \ {"client"} : loaded'[x] = DefaultConfig[x]
    BY <1>1, <2>2 DEF v
  <2> QED
    BY <2>1, <2>3, DefaultTyped DEF Keys, v
<1>5. ASSUME NEW n \in 1..7
      PROVE  /\ Done(n)' \in 0..Len(docs'[Sections[n]])
             /\ loaded'[Sections[n]]
                  = FirstOf(ItemsOf(Sections[n], docs'[Sections[n]]), Done(n)')
  <2>1. Done(n)' = 0
    BY <1>2 DEF Done
  <2>2. Len(docs'[Sections[n]]) \in Nat
    BY SectionsListed DEF Inv, DocsListed, Document, IsList
  <2> QED
    BY <1>4, <2>1, <2>2, FlattenNone, SectionsListed
<1>6. LoadedSoFar'
  BY <1>3, <1>4, <1>5 DEF LoadedSoFar
<1>7. AllTyped'
  BY <1>2, <1>4, FitLists DEF ConfInv, AllTyped, Typed
<1>8. Place'
  BY <1>2 DEF Place
<1>9. OneLoad'
  BY <1>2 DEF ConfInv, OneLoad
<1>10. Ranges'
  BY <1>2 DEF ConfInv, Ranges
<1> QED
  BY <1>6, <1>7, <1>8, <1>9, <1>10

LEMMA OpenPolicyStep ==
  ASSUME ConfInv, OpenPolicy, Inv'
  PROVE  (Place /\ LoadedSoFar /\ OneLoad /\ Ranges /\ AllTyped)'
<1>1. PICK d \in PolicyDocs : docs' = Merged(d, docs)
  BY DEF OpenPolicy
<1>2. /\ pc = "policy" /\ pc' = "items" /\ section' = 6 /\ item' = 1
      /\ config_' = config_ /\ configured_' = configured_ /\ launchOptions_' = launchOptions_
      /\ calls' = calls /\ source' = source /\ result' = result /\ loaded' = loaded
  BY DEF OpenPolicy, app, RuntimeSections
<1>3. \A s \in RuntimeKeys \cup {"client"} : docs'[s] = docs[s]
  BY <1>1, PolicyOpened DEF ConfInv, Inv
<1>4. section = 6 /\ item = 1
  BY <1>2 DEF ConfInv, Place
<1>5. /\ loaded["client"] = ReadString(docs["client"], "security-client-v2")
      /\ \A n \in 1..7 :
           /\ Done(n) \in 0..Len(docs[Sections[n]])
           /\ loaded[Sections[n]] = FirstOf(ItemsOf(Sections[n], docs[Sections[n]]), Done(n))
  BY <1>2 DEF ConfInv, LoadedSoFar
<1>6. ASSUME NEW n \in 1..7
      PROVE  /\ Done(n)' \in 0..Len(docs'[Sections[n]])
             /\ loaded[Sections[n]]
                  = FirstOf(ItemsOf(Sections[n], docs'[Sections[n]]), Done(n)')
  <2>1. CASE n \in 1..5
    <3>1. docs'[Sections[n]] = docs[Sections[n]]
      BY <1>3, <2>1, SectionsListed
    <3>2. Done(n)' = Done(n)
      BY <1>2, <1>4, <2>1, <3>1 DEF Done
    <3> QED
      BY <1>5, <3>1, <3>2
  <2>2. CASE n \in 6..7
    <3>1. Done(n) = 0 /\ Done(n)' = 0
      BY <1>2, <1>4, <2>2 DEF Done
    <3>2. Len(docs'[Sections[n]]) \in Nat
      BY SectionsListed DEF Inv, DocsListed, Document, IsList
    <3>3. loaded[Sections[n]] = FirstOf(ItemsOf(Sections[n], docs[Sections[n]]), 0)
      BY <1>5, <3>1
    <3> QED
      BY <3>1, <3>2, <3>3, FlattenNone
  <2> QED
    BY <2>1, <2>2
<1>7. LoadedSoFar'
  BY <1>2, <1>3, <1>5, <1>6 DEF LoadedSoFar
<1>8. AllTyped'
  BY <1>2 DEF ConfInv, AllTyped
<1>9. Place'
  BY <1>2 DEF Place
<1>10. OneLoad'
  BY <1>2 DEF ConfInv, OneLoad
<1>11. Ranges'
  BY <1>2 DEF ConfInv, Ranges
<1> QED
  BY <1>7, <1>8, <1>9, <1>10, <1>11

\* An item is appended to its section.
LEMMA LoadItemStep ==
  ASSUME ConfInv, LoadItem
  PROVE  (Place /\ LoadedSoFar /\ OneLoad /\ Ranges /\ AllTyped)'
<1> DEFINE s == Sections[section]
           list == docs[s]
           new == ReadItemOf(s, list[item]).items
<1>1. /\ pc = "items" /\ pc' = "items" /\ section' = section /\ item' = item + 1 /\ docs' = docs
      /\ config_' = config_ /\ configured_' = configured_ /\ launchOptions_' = launchOptions_
      /\ calls' = calls /\ source' = source /\ result' = result
      /\ item <= Len(list) /\ loaded' = [loaded EXCEPT ![s] = @ \o new]
  BY DEF LoadItem, MoreItems, app, Current
<1>2. section \in 1..7 /\ item \in Nat \ {0} /\ DocsListed
  BY <1>1 DEF ConfInv, Inv, Progress
<1>3. /\ s \in SectionKeys /\ IsList(list) /\ Len(list) \in Nat /\ DOMAIN list = 1..Len(list)
      /\ \A k \in DOMAIN list : WellFormed(s, list[k])
  BY <1>2, DocsParts, SectionsListed
<1>4. item \in DOMAIN list /\ FitList(s, new)
  BY <1>1, <1>2, <1>3, ItemsFit
<1>5. /\ loaded["client"] = ReadString(docs["client"], "security-client-v2")
      /\ \A n \in 1..7 :
           /\ Done(n) \in 0..Len(docs[Sections[n]])
           /\ loaded[Sections[n]] = FirstOf(ItemsOf(Sections[n], docs[Sections[n]]), Done(n))
  BY <1>1 DEF ConfInv, LoadedSoFar
<1>6. ItemsOf(s, list)[item] = new
  BY <1>4 DEF ItemsOf
<1>7. Typed(loaded)
  BY DEF ConfInv, AllTyped
<1> HIDE DEF new
<1>8. /\ FcnOn(loaded', Keys) /\ loaded'[s] = loaded[s] \o new
      /\ \A x \in Keys : x # s => loaded'[x] = loaded[x]
  <2>1. loaded = [x \in Keys |-> loaded[x]] /\ s \in Keys
    BY <1>3, <1>7 DEF Typed, FcnOn, Keys
  <2> HIDE DEF s
  <2>2. \A b : b = [loaded EXCEPT ![s] = @ \o new] =>
          /\ FcnOn(b, Keys) /\ b[s] = loaded[s] \o new
          /\ \A x \in Keys : x # s => b[x] = loaded[x]
    BY <2>1 DEF FcnOn
  <2> QED
    BY <1>1, <2>2
<1>9. Done(section) = item - 1 /\ Done(section)' = item /\ item - 1 \in Nat
  BY <1>1, <1>2 DEF Done
<1>10. loaded'[s] = FirstOf(ItemsOf(s, list), item)
  <2>1. loaded[s] = FirstOf(ItemsOf(s, list), item - 1)
    BY <1>2, <1>5, <1>9
  <2>2. FirstOf(ItemsOf(s, list), item - 1 + 1)
          = IF item - 1 = 0 THEN ItemsOf(s, list)[1]
            ELSE FirstOf(ItemsOf(s, list), item - 1) \o ItemsOf(s, list)[item - 1 + 1]
    BY <1>9, FlattenMore
  <2>3. item - 1 + 1 = item
    BY <1>2
  <2>4. CASE item = 1
    <3>1. loaded[s] = <<>>
      BY <2>1, <2>4, FlattenNone
    <3>2. <<>> \o new = new
      BY <1>4, FitAppend
    <3> QED
      BY <1>6, <1>8, <2>2, <2>3, <2>4, <3>1, <3>2
  <2>5. CASE item # 1
    <3>1. item - 1 # 0
      BY <1>2, <2>5
    <3> QED
      BY <1>6, <1>8, <2>1, <2>2, <2>3, <3>1
  <2> QED
    BY <2>4, <2>5
<1>11. ASSUME NEW n \in 1..7
       PROVE  /\ Done(n)' \in 0..Len(docs'[Sections[n]])
              /\ loaded'[Sections[n]]
                   = FirstOf(ItemsOf(Sections[n], docs'[Sections[n]]), Done(n)')
  <2>1. CASE n = section
    BY <1>1, <1>2, <1>3, <1>9, <1>10, <2>1
  <2>2. CASE n # section
    <3>1. Done(n)' = Done(n)
      BY <1>1, <2>2 DEF Done
    <3>2. Sections[n] # s /\ Sections[n] \in Keys
      BY <1>2, <2>2, SectionsDiffer, SectionsListed DEF Keys
    <3>3. loaded'[Sections[n]] = loaded[Sections[n]]
      BY <1>8, <3>2
    <3> QED
      BY <1>1, <1>5, <3>1, <3>3
  <2> QED
    BY <2>1, <2>2
<1>12. loaded'["client"] = loaded["client"]
  BY <1>3, <1>8, SectionsListed DEF Keys
<1>13. LoadedSoFar'
  BY <1>1, <1>5, <1>11, <1>12 DEF LoadedSoFar
<1>14. Typed(loaded')
  <2>1. FitList(s, loaded'[s])
    BY <1>3, <1>4, <1>7, <1>8, FitLists DEF Typed
  <2>2. \A x \in SectionKeys : FitList(x, loaded'[x])
    BY <1>7, <1>8, <2>1 DEF Typed, Keys
  <2> QED
    BY <1>8, <2>2 DEF Typed
<1>15. AllTyped'
  BY <1>1, <1>14 DEF ConfInv, AllTyped
<1>16. Place'
  BY <1>1 DEF ConfInv, Place
<1>17. OneLoad'
  BY <1>1 DEF ConfInv, OneLoad
<1>18. Ranges'
  BY <1>1 DEF ConfInv, Ranges
<1> QED
  BY <1>13, <1>15, <1>16, <1>17, <1>18

\* At the end of a section all its items are in loaded, and none of the next one's.
LEMMA NextSectionStep ==
  ASSUME ConfInv, NextSection
  PROVE  (Place /\ LoadedSoFar /\ OneLoad /\ Ranges /\ AllTyped)'
<1>1. /\ pc = "items" /\ item > Len(docs[Sections[section]])
      /\ section' = section + 1 /\ item' = 1 /\ docs' = docs /\ loaded' = loaded
      /\ pc' = IF section = 5 THEN "policy" ELSE IF section = 7 THEN "commit" ELSE "items"
      /\ config_' = config_ /\ configured_' = configured_ /\ launchOptions_' = launchOptions_
      /\ calls' = calls /\ source' = source /\ result' = result
  BY SectionsListed DEF NextSection, app, RuntimeSections
<1>2. section \in 1..7 /\ item \in Nat \ {0} /\ DocsListed
  BY <1>1 DEF ConfInv, Inv, Progress
<1>3. /\ loaded["client"] = ReadString(docs["client"], "security-client-v2")
      /\ \A n \in 1..7 :
           /\ Done(n) \in 0..Len(docs[Sections[n]])
           /\ loaded[Sections[n]] = FirstOf(ItemsOf(Sections[n], docs[Sections[n]]), Done(n))
  BY <1>1 DEF ConfInv, LoadedSoFar
<1>4. ASSUME NEW n \in 1..7
      PROVE  Done(n)' = Done(n)
  <2>1. CASE n < section
    BY <1>1, <1>2, <2>1 DEF Done
  <2>2. CASE n = section
    <3>1. Done(n) = item - 1 /\ Done(n) \in 0..Len(docs[Sections[n]])
      BY <1>2, <1>3, <2>2 DEF Done
    <3>2. Len(docs[Sections[n]]) \in Nat
      BY <1>2, DocsParts
    <3>3. item - 1 = Len(docs[Sections[n]])
      BY <1>1, <1>2, <2>2, <3>1, <3>2
    <3>4. Done(n)' = Len(docs[Sections[n]])
      BY <1>1, <1>2, <2>2 DEF Done
    <3> QED
      BY <3>1, <3>3, <3>4
  <2>3. CASE n > section
    BY <1>1, <1>2, <2>3 DEF Done
  <2> QED
    BY <1>2, <2>1, <2>2, <2>3
<1>5. LoadedSoFar'
  BY <1>1, <1>3, <1>4 DEF LoadedSoFar
<1>6. Place'
  BY <1>1, <1>2 DEF Place
<1>7. OneLoad'
  BY <1>1 DEF ConfInv, OneLoad
<1>8. Ranges'
  BY <1>1 DEF ConfInv, Ranges
<1>9. AllTyped'
  BY <1>1 DEF ConfInv, AllTyped
<1> QED
  BY <1>5, <1>6, <1>7, <1>8, <1>9

\* Two configurations with the same sections are the same.
LEMMA SameParts ==
  ASSUME NEW b, NEW c, FcnOn(b, Keys), FcnOn(c, Keys), b["client"] = c["client"],
         \A s \in SectionKeys : b[s] = c[s]
  PROVE  b = c
<1>1. \A x \in Keys : b[x] = c[x]
  BY DEF Keys
<1> QED
  BY <1>1 DEF FcnOn

\* When both documents were read, what was loaded is what they mean as a whole.
LEMMA WholeLoaded ==
  ASSUME ConfInv, pc = "commit"
  PROVE  loaded = Meaning(docs)
<1>1. section = 8 /\ DocsListed /\ Typed(loaded)
  BY DEF ConfInv, Place, Inv, AllTyped
<1>2. /\ loaded["client"] = ReadString(docs["client"], "security-client-v2")
      /\ \A n \in 1..7 :
           /\ Done(n) \in 0..Len(docs[Sections[n]])
           /\ loaded[Sections[n]] = FirstOf(ItemsOf(Sections[n], docs[Sections[n]]), Done(n))
  BY DEF ConfInv, LoadedSoFar
<1>3. ASSUME NEW s \in SectionKeys PROVE loaded[s] = Meaning(docs)[s]
  <2>1. PICK n \in 1..7 : Sections[n] = s
    BY SectionsListed
  <2>2. Done(n) = Len(docs[s])
    BY <1>1, <2>1 DEF Done
  <2>3. Meaning(docs)[s] = FirstOf(ItemsOf(s, docs[s]), Len(docs[s]))
    BY <1>1, MeaningParts DEF DocsListed
  <2> QED
    BY <1>2, <2>1, <2>2, <2>3
<1>4. FcnOn(Meaning(docs), Keys) /\ Meaning(docs)["client"] = loaded["client"]
  BY <1>1, <1>2, MeaningParts DEF DocsListed
<1> QED
  BY <1>1, <1>3, <1>4, SameParts DEF Typed

LEMMA HandOverStep ==
  ASSUME ConfInv, HandOver
  PROVE  (Place /\ LoadedSoFar /\ OneLoad /\ Ranges /\ AllTyped)'
<1>1. /\ pc = "commit" /\ pc' = "overrides" /\ config_' = loaded /\ loaded' = loaded
      /\ source'.config = Meaning(docs) /\ source'.options = launchOptions_
      /\ launchOptions_' = launchOptions_ /\ configured_' = configured_ /\ result' = result
      /\ section' = section /\ calls' = calls
  BY DEF HandOver, locals
<1>2. loaded = Meaning(docs)
  BY <1>1, WholeLoaded
<1>3. Place' /\ LoadedSoFar'
  BY <1>1 DEF ConfInv, Place, LoadedSoFar
<1>4. OneLoad'
  BY <1>1, <1>2 DEF OneLoad
<1>5. Ranges'
  BY <1>1 DEF ConfInv, Ranges
<1>6. AllTyped'
  BY <1>1, <1>2 DEF ConfInv, AllTyped
<1> QED
  BY <1>3, <1>4, <1>5, <1>6

LEMMA ApplyOverridesStep ==
  ASSUME ConfInv, ApplyOverrides
  PROVE  (Place /\ LoadedSoFar /\ OneLoad /\ Ranges /\ AllTyped)'
<1>1. /\ pc = "overrides" /\ config_' = Overridden(launchOptions_, config_) /\ configured_' = TRUE
      /\ launchOptions_' = launchOptions_ /\ calls' = calls /\ source' = source
      /\ pc' = "idle" /\ result' = "true" /\ section' = 1 /\ loaded' = DefaultConfig
  BY DEF ApplyOverrides, Return
<1>2. config_ = source.config /\ source.options = launchOptions_
  BY <1>1 DEF ConfInv, OneLoad
<1>3. Place' /\ LoadedSoFar'
  BY <1>1 DEF Place, LoadedSoFar
<1>4. OneLoad'
  BY <1>1, <1>2 DEF OneLoad
<1>5. Ranges'
  BY <1>1 DEF ConfInv, Ranges
<1>6. Typed(Overridden(launchOptions_, config_))
  <2>1. Typed(config_) /\ launchOptions_ \in AllOptions
    BY DEF ConfInv, AllTyped, Ranges
  <2> QED
    BY <2>1, OptionsFit, OverriddenTyped
<1>7. AllTyped'
  BY <1>1, <1>6, DefaultTyped DEF ConfInv, AllTyped
<1> QED
  BY <1>3, <1>4, <1>5, <1>7

LEMMA ConfInvStep == ConfInv /\ [Next]_vars => ConfInv'
<1> SUFFICES ASSUME ConfInv, [Next]_vars
             PROVE  ConfInv'
  OBVIOUS
<1>1. Inv'
  BY InvStep DEF ConfInv
<1> SUFFICES (Place /\ LoadedSoFar /\ OneLoad /\ Ranges /\ AllTyped)'
  BY <1>1 DEF ConfInv
<1>2. CASE Call
  BY <1>2, CallsStep
<1>3. CASE Unreadable
  <2>1. Return("false") /\ pc # "overrides" /\ UNCHANGED <<app, calls, source>>
    BY <1>3 DEF Unreadable
  <2> QED
    BY <2>1, GivesUp
<1>4. CASE OpenRuntime
  BY <1>1, <1>4, OpenRuntimeStep
<1>5. CASE OpenPolicy
  BY <1>1, <1>5, OpenPolicyStep
<1>6. CASE LoadItem
  BY <1>6, LoadItemStep
<1>7. CASE RejectItem
  <2>1. PICK r \in {"true", "false", "threw"} : Return(r)
    BY <1>7 DEF RejectItem
  <2>2. pc # "overrides" /\ UNCHANGED <<app, calls, source>>
    BY <1>7 DEF RejectItem, MoreItems
  <2> QED
    BY <2>1, <2>2, GivesUp
<1>8. CASE NextSection
  BY <1>8, NextSectionStep
<1>9. CASE HandOver
  BY <1>9, HandOverStep
<1>10. CASE ApplyOverrides
  BY <1>10, ApplyOverridesStep
<1>11. CASE UNCHANGED vars
  BY <1>11 DEF vars, app, locals, ConfInv, Place, LoadedSoFar, Done, OneLoad, Ranges, AllTyped
<1> QED
  BY <1>2, <1>3, <1>4, <1>5, <1>6, <1>7, <1>8, <1>9, <1>10, <1>11 DEF Next, Load

LEMMA Configured == Spec => []ConfInv
BY ConfInvInit, ConfInvStep, PTL DEF Spec

------------------------------------------------------------------------------
(* The properties.                                                         *)

LEMMA TypedNumbers ==
  ASSUME NEW c, Typed(c)
  PROVE  /\ DOMAIN c = DOMAIN DefaultConfig /\ Numbers(c)
         /\ \A k \in DOMAIN c["hostIds"] : c["hostIds"][k].common.topic # ""
<1>1. DOMAIN c = Keys /\ DOMAIN DefaultConfig = Keys
  BY DefaultTyped DEF Typed, FcnOn
<1>2. \A s \in SectionKeys : \A k \in DOMAIN c[s] : Fits(s, c[s][k])
  <2> SUFFICES ASSUME NEW s \in SectionKeys, NEW k \in DOMAIN c[s] PROVE Fits(s, c[s][k])
    OBVIOUS
  <2>1. FitList(s, c[s])
    BY DEF Typed
  <2> QED
    BY <2>1, FitLists
<1>3. \A k \in DOMAIN c["transports"] : c["transports"][k]["domainId"] \in IntRange
  BY <1>2 DEF Fits, SectionKeys, RuntimeKeys
<1>4. \A k \in DOMAIN c["sources"] : c["sources"][k]["ttlMs"] \in Int64Range
  BY <1>2 DEF Fits, SectionKeys, RuntimeKeys
<1>5. \A k \in DOMAIN c["sinks"] : c["sinks"][k]["domainId"] \in IntRange
  BY <1>2 DEF Fits, SectionKeys, RuntimeKeys
<1>6. /\ \A k \in DOMAIN c["hostIds"] : RuleNumbers(c["hostIds"][k])
      /\ \A k \in DOMAIN c["networkIds"] : RuleNumbers(c["networkIds"][k])
  BY <1>2 DEF Fits, SectionKeys, PolicyKeys
<1>7. \A k \in DOMAIN c["hostIds"] : c["hostIds"][k].common.topic # ""
  BY <1>2 DEF Fits, SectionKeys, PolicyKeys
<1>8. Numbers(c)
  BY <1>3, <1>4, <1>5, <1>6 DEF Numbers
<1> QED
  BY <1>1, <1>7, <1>8

\* Every number of the configuration, and of one that is being loaded, fits the member
\* it is stored in, whatever the documents hold (domains, rule ids, times, the windows
\* of cycle rules, vendor ids), and a signal rule always names its topic:
\* SecurityClientConfigLoader.cpp:92-113, 207-263, 433-436, 482-486, 517-534.
THEOREM TypeCorrect == Spec => []TypeOK
<1>1. ConfInv => TypeOK
  <2> SUFFICES ASSUME ConfInv PROVE TypeOK
    OBVIOUS
  <2>1. Typed(config_) /\ Typed(loaded)
    BY DEF ConfInv, AllTyped
  <2>2. /\ configured_ \in BOOLEAN /\ calls \in 0..MaxCalls
        /\ launchOptions_ \in Options \cup {NoOptions}
        /\ pc \in {"idle", "runtime", "items", "policy", "commit", "overrides"}
        /\ result \in {"none", "true", "false", "threw"}
    BY Zenon DEF ConfInv, Ranges, AllOptions
  <2>3. section \in 1..Len(Sections) + 1 /\ item \in Nat \ {0}
    BY SectionsListed DEF ConfInv, Place, Inv
  <2>4. /\ DOMAIN config_ = DOMAIN DefaultConfig /\ Numbers(config_)
        /\ \A k \in DOMAIN config_["hostIds"] : config_["hostIds"][k].common.topic # ""
    BY <2>1, TypedNumbers
  <2>5. DOMAIN loaded = DOMAIN DefaultConfig /\ Numbers(loaded)
    BY <2>1, TypedNumbers
  <2> QED
    BY <2>2, <2>3, <2>4, <2>5, Zenon DEF TypeOK
<1> QED
  BY <1>1, Configured, PTL

\* Between calls the configuration is what one successful call's documents mean as a
\* whole, with that call's overrides, after any number of calls that failed or threw
\* in between: SecurityClientConfigLoader.cpp:546-569, SecurityClientApp.cpp:59-80.
THEOREM ConfigIsOneLoadHolds == Spec => []ConfigIsOneLoad
<1>1. ConfInv => ConfigIsOneLoad
  BY DEF ConfInv, OneLoad, ConfigIsOneLoad
<1> QED
  BY <1>1, Configured, PTL

\* The launch options are in force at every sink and for the client, whatever the
\* documents say: SecurityClientApp.cpp:31-55.
THEOREM OverridesReachHolds == Spec => []OverridesReach
<1>1. ConfInv => OverridesReach
  <2> SUFFICES ASSUME ConfInv, pc # "overrides"
               PROVE  /\ \A d \in source.options.domain :
                           \A k \in DOMAIN config_["sinks"] : config_["sinks"][k]["domainId"] = d
                      /\ source.options.client # "" => config_["client"] = source.options.client
    BY DEF OverridesReach
  <2> DEFINE o == source.options
             c == source.config
  <2>1. config_ = Overridden(o, c) /\ Typed(c) /\ o \in AllOptions
    BY DEF ConfInv, OneLoad, AllTyped, Ranges
  <2> HIDE DEF o, c
  <2>2. o.domain \subseteq IntRange /\ \A d, e \in o.domain : d = e
    BY <2>1, OptionsFit
  <2>3. /\ FcnOn(config_["sinks"], 1..Len(c["sinks"]))
        /\ \A k \in 1..Len(c["sinks"]) : \A d \in o.domain : config_["sinks"][k]["domainId"] = d
    BY <2>1, <2>2, OverriddenSinks
  <2>4. DOMAIN config_["sinks"] = 1..Len(c["sinks"])
    BY <2>3 DEF FcnOn
  <2>5. o.client # "" => config_["client"] = o.client
    BY <2>1, OverriddenParts
  <2> QED
    BY <2>3, <2>4, <2>5 DEF o
<1> QED
  BY <1>1, Configured, PTL

\* A value's number and its text are read as they are where they fit.
LEMMA ReadFaithfully ==
  ASSUME NEW v, IsValue(v)
  PROVE  Faithful(v, ReadInt(v, 0))
<1>1. IntHalf \in Nat \ {0} /\ LongHalf \in Nat \ {0}
  BY WidthAssumption
<1>2. ASSUME IsInteger(v), v["number"] \in IntRange
      PROVE  ReadInt(v, 0) = v["number"]
  <2>1. v["number"] \in Int /\ v["number"] \in -IntHalf..IntHalf - 1
    BY <1>1, <1>2 DEF IntRange
  <2>2. Wrap(v["number"], IntHalf) = v["number"]
    BY <1>1, <2>1, WrapCorrect
  <2> QED
    BY <1>2, <2>2 DEF ReadInt
<1>3. ASSUME Is("numeral", v)
      PROVE  ReadInt(v, 0) = IF v["numeral"] \in IntRange THEN v["numeral"] ELSE 0
  <2>1. ~Is("number", v)
    BY <1>3 DEF IsValue, Is
  <2> QED
    BY <1>3, <2>1 DEF ReadInt, IsInteger
<1> QED
  BY <1>2, <1>3 DEF Faithful

\* A section whose items give one element each has those elements, in their order.
LEMMA OneEach ==
  ASSUME ConfInv, pc = "commit", NEW s \in SectionKeys,
         \A k \in DOMAIN docs[s] : \E x : ReadItemOf(s, docs[s][k]).items = <<x>>
  PROVE  /\ DOMAIN loaded[s] = DOMAIN docs[s]
         /\ \A k \in DOMAIN docs[s] : ReadItemOf(s, docs[s][k]).items = <<loaded[s][k]>>
<1> DEFINE f == ItemsOf(s, docs[s])
           n == Len(docs[s])
           one(k) == CHOOSE x : ReadItemOf(s, docs[s][k]).items = <<x>>
           g == [k \in 1..n |-> one(k)]
<1>1. n \in Nat /\ DOMAIN docs[s] = 1..n /\ Document(docs, SectionKeys)
  BY DEF ConfInv, Inv, DocsListed, Document, IsList
<1>2. \A k \in 1..n : ReadItemOf(s, docs[s][k]).items = <<one(k)>>
  <2> SUFFICES ASSUME NEW k \in 1..n PROVE ReadItemOf(s, docs[s][k]).items = <<one(k)>>
    OBVIOUS
  <2>1. \E x : ReadItemOf(s, docs[s][k]).items = <<x>>
    BY <1>1
  <2> QED
    BY <2>1, Zenon
<1> HIDE DEF one
<1>3. \A k \in 1..n : g[k] = one(k)
  OBVIOUS
<1>4. \A k \in 1..n : f[k] = <<g[k]>>
  BY <1>1, <1>2, <1>3 DEF ItemsOf
<1> HIDE DEF g, f, n
<1>5. loaded[s] = FirstOf(f, n)
  BY <1>1, WholeLoaded, MeaningParts DEF f, n
<1>6. loaded[s] = Firsts(g, n)
  BY <1>1, <1>4, <1>5, FlattenSingletons
<1>7. DOMAIN loaded[s] = 1..n /\ \A k \in 1..n : loaded[s][k] = g[k]
  BY <1>6 DEF Firsts
<1> QED
  BY <1>1, <1>2, <1>3, <1>7

\* What is loaded of the transports, the sources and the sinks.
LEMMA LoadedElements ==
  ASSUME ConfInv, pc = "commit"
  PROVE  /\ DOMAIN loaded["transports"] = DOMAIN docs["transports"]
         /\ \A k \in DOMAIN docs["transports"] :
              /\ loaded["transports"][k]["id"] = Name(docs["transports"][k].id)
              /\ loaded["transports"][k]["domainId"] = ReadInt(docs["transports"][k].domain_id, 0)
         /\ \A k \in DOMAIN docs["sources"] :
              /\ loaded["sources"][k]["transportId"] = Name(docs["sources"][k].transport_id)
              /\ "domainId" \in DOMAIN loaded["sources"][k]
         /\ \A k \in DOMAIN docs["sinks"] :
              loaded["sinks"][k]["domainId"] = ReadInt(docs["sinks"][k].domain_id, 0)
<1>1. \A s \in SectionKeys : \A k \in DOMAIN docs[s] : ReadItemOf(s, docs[s][k]).outcome = "read"
  BY SectionsListed DEF ConfInv, Inv, Progress, ReadIn
<1>2. {"transports", "sources", "sinks"} \subseteq SectionKeys
  BY DEF SectionKeys, RuntimeKeys
<1>3. \A x, y : <<x>> = <<y>> => x = y
  OBVIOUS
<1>4. /\ DOMAIN loaded["transports"] = DOMAIN docs["transports"]
      /\ \A k \in DOMAIN docs["transports"] :
           /\ loaded["transports"][k]["id"] = Name(docs["transports"][k].id)
           /\ loaded["transports"][k]["domainId"] = ReadInt(docs["transports"][k].domain_id, 0)
  <2>1. \A k \in DOMAIN docs["transports"] :
          \E x : /\ ReadItemOf("transports", docs["transports"][k]).items = <<x>>
                 /\ x["id"] = Name(docs["transports"][k].id)
                 /\ x["domainId"] = ReadInt(docs["transports"][k].domain_id, 0)
    BY RuntimeItems
  <2>2. /\ DOMAIN loaded["transports"] = DOMAIN docs["transports"]
        /\ \A k \in DOMAIN docs["transports"] :
             ReadItemOf("transports", docs["transports"][k]).items = <<loaded["transports"][k]>>
    BY <1>2, <2>1, OneEach
  <2> QED
    BY <1>3, <2>1, <2>2
<1>5. \A k \in DOMAIN docs["sources"] :
        /\ loaded["sources"][k]["transportId"] = Name(docs["sources"][k].transport_id)
        /\ "domainId" \in DOMAIN loaded["sources"][k]
  <2>1. \A k \in DOMAIN docs["sources"] :
          \E x : /\ ReadItemOf("sources", docs["sources"][k]).items = <<x>>
                 /\ x["transportId"] = Name(docs["sources"][k].transport_id)
                 /\ "domainId" \in DOMAIN x
    <3> SUFFICES ASSUME NEW k \in DOMAIN docs["sources"]
                 PROVE  \E x : /\ ReadItemOf("sources", docs["sources"][k]).items = <<x>>
                               /\ x["transportId"] = Name(docs["sources"][k].transport_id)
                               /\ "domainId" \in DOMAIN x
      OBVIOUS
    <3>1. ReadItemOf("sources", docs["sources"][k]).outcome = "read"
      BY <1>1, <1>2
    <3> QED
      BY <3>1, RuntimeItems
  <2>2. \A k \in DOMAIN docs["sources"] :
          ReadItemOf("sources", docs["sources"][k]).items = <<loaded["sources"][k]>>
    BY <1>2, <2>1, OneEach
  <2> QED
    BY <1>3, <2>1, <2>2
<1>6. \A k \in DOMAIN docs["sinks"] :
        loaded["sinks"][k]["domainId"] = ReadInt(docs["sinks"][k].domain_id, 0)
  <2>1. \A k \in DOMAIN docs["sinks"] :
          \E x : /\ ReadItemOf("sinks", docs["sinks"][k]).items = <<x>>
                 /\ x["domainId"] = ReadInt(docs["sinks"][k].domain_id, 0)
    <3> SUFFICES ASSUME NEW k \in DOMAIN docs["sinks"]
                 PROVE  \E x : /\ ReadItemOf("sinks", docs["sinks"][k]).items = <<x>>
                               /\ x["domainId"] = ReadInt(docs["sinks"][k].domain_id, 0)
      OBVIOUS
    <3>1. ReadItemOf("sinks", docs["sinks"][k]).outcome = "read"
      BY <1>1, <1>2
    <3> QED
      BY <3>1, RuntimeItems
  <2>2. \A k \in DOMAIN docs["sinks"] :
          ReadItemOf("sinks", docs["sinks"][k]).items = <<loaded["sinks"][k]>>
    BY <1>2, <2>1, OneEach
  <2> QED
    BY <1>3, <2>1, <2>2
<1> QED
  BY <1>4, <1>5, <1>6

\* A source gets the domain of the first transport of the name it gives.
LEMMA FirstTransport ==
  ASSUME NEW x, NEW ts, NEW n \in Nat, DOMAIN ts = 1..n, "domainId" \in DOMAIN x,
         NEW l \in 1..n, ts[l]["id"] = x["transportId"],
         \A j \in 1..l - 1 : ts[j]["id"] # x["transportId"]
  PROVE  ResolveSourceConfig(x, ts)["domainId"] = ts[l]["domainId"]
<1> DEFINE named == {k \in DOMAIN ts : ts[k]["id"] = x["transportId"]}
           first == CHOOSE k \in named : \A j \in named : k <= j
<1>1. l \in named /\ named \subseteq 1..n /\ \A j \in named : l <= j
  OBVIOUS
<1>2. ResolveSourceConfig(x, ts)
        = IF named = {} THEN x ELSE [x EXCEPT !["domainId"] = ts[first]["domainId"]]
  BY DEF ResolveSourceConfig
<1> HIDE DEF named
<1>3. first \in named /\ \A j \in named : first <= j
  <2>1. \E k \in named : \A j \in named : k <= j
    BY <1>1
  <2> QED
    BY <2>1, Zenon
<1> HIDE DEF first
<1>4. first = l
  <2>1. first \in 1..n /\ first <= l /\ l <= first
    BY <1>1, <1>3
  <2> QED
    BY <2>1
<1> QED
  BY <1>1, <1>2, <1>4

\* When the configuration is handed over, the domain of every transport, of every sink
\* and of every source's reader is the number its document gives, as a number or as a
\* text, wherever that fits: SecurityClientConfigLoader.cpp:92-113,
\* CollectionStage.cpp:24-40.
THEOREM NumbersFaithfulHolds == Spec => []NumbersFaithful
<1>1. ConfInv => NumbersFaithful
  <2> SUFFICES ASSUME ConfInv, pc = "commit"
               PROVE  NumbersFaithful
    BY DEF NumbersFaithful
  <2>1. {"transports", "sources", "sinks"} \subseteq SectionKeys /\ Document(docs, SectionKeys)
    BY DEF SectionKeys, RuntimeKeys, ConfInv, Inv, DocsListed
  <2>2. \A s \in {"transports", "sinks"} : \A k \in DOMAIN docs[s] : IsValue(docs[s][k].domain_id)
    BY <2>1 DEF Document, WellFormed
  <2>3. ASSUME NEW k \in DOMAIN docs["transports"]
        PROVE  Faithful(docs["transports"][k].domain_id, loaded["transports"][k]["domainId"])
    BY <2>2, LoadedElements, ReadFaithfully
  <2>4. ASSUME NEW k \in DOMAIN docs["sinks"]
        PROVE  Faithful(docs["sinks"][k].domain_id, loaded["sinks"][k]["domainId"])
    BY <2>2, LoadedElements, ReadFaithfully
  <2>5. ASSUME NEW k \in DOMAIN docs["sources"],
               NEW l \in FirstNamed(docs["transports"], Name(docs["sources"][k].transport_id))
        PROVE  Faithful(docs["transports"][l].domain_id,
                        ResolveSourceConfig(loaded["sources"][k], loaded["transports"])["domainId"])
    <3> DEFINE ts == loaded["transports"]
               x == loaded["sources"][k]
               n == Len(docs["transports"])
    <3>1. n \in Nat /\ DOMAIN docs["transports"] = 1..n
      BY <2>1 DEF Document, IsList
    <3>2. /\ l \in 1..n /\ Name(docs["transports"][l].id) = Name(docs["sources"][k].transport_id)
          /\ \A j \in 1..l - 1 :
               Name(docs["transports"][j].id) # Name(docs["sources"][k].transport_id)
      BY <3>1 DEF FirstNamed
    <3>3. /\ x["transportId"] = Name(docs["sources"][k].transport_id) /\ "domainId" \in DOMAIN x
          /\ DOMAIN ts = 1..n
          /\ \A j \in 1..n : ts[j]["id"] = Name(docs["transports"][j].id)
      BY <3>1, LoadedElements
    <3> HIDE DEF ts, x, n
    <3>4. /\ ts[l]["id"] = x["transportId"]
          /\ \A j \in 1..l - 1 : ts[j]["id"] # x["transportId"]
      BY <3>1, <3>2, <3>3
    <3>5. ResolveSourceConfig(x, ts)["domainId"] = ts[l]["domainId"]
      BY <3>1, <3>2, <3>3, <3>4, FirstTransport
    <3>6. Faithful(docs["transports"][l].domain_id, ts[l]["domainId"])
      BY <2>3, <3>1, <3>2 DEF ts
    <3> QED
      BY <3>5, <3>6 DEF ts, x
  <2> QED
    BY <2>3, <2>4, <2>5 DEF NumbersFaithful
<1> QED
  BY <1>1, Configured, PTL
==============================================================================
