------------------------ MODULE PrepareBarrierProofs ------------------------
(***************************************************************************)
(* The prepare barrier does what it is for, with any number of processes   *)
(* of each kind and any number of generations: its counters are exact, no  *)
(* generation changes under a prepare, and the consistency check keeps     *)
(* backends out.                                                           *)
(***************************************************************************)
EXTENDS PrepareBarrier, FiniteSetTheorems, TLAPS

FullHolder == Switcher \cup Handler

\* Where the processes of each role can be.
Places ==
    /\ \A p \in Preparer : pc[p] \in {"idle", "inside", "preparing"}
    /\ \A p \in Switcher : pc[p] \in {"idle", "called", "waiting", "holding", "locked", "donor",
                                      "unlocking", "unlocked", "leaving"}
    /\ \A p \in Handler : pc[p] \in {"idle", "called", "locked", "waiting", "holding",
                                     "unlocking", "leaving"}
    /\ \A p \in Checker : pc[p] \in {"idle", "waiting", "holding", "held"}
    /\ \A p \in Reader : pc[p] \in {"idle", "reading"}

\* Where a process is counted in the barrier.
Counted(p) ==
    \/ p \in Preparer /\ pc[p] \in {"inside", "preparing"}
    \/ p \in Switcher /\ pc[p] \in {"waiting", "holding", "locked", "donor", "unlocking", "unlocked"}
    \/ p \in Handler /\ pc[p] \in {"waiting", "holding", "unlocking"}
    \/ p \in Checker /\ pc[p] \in {"waiting", "holding", "held"}

CountedInMode ==
    \A p \in Proc : pbMode[p] = IF Counted(p) THEN ModeOf(p) ELSE "none"

\* Where a holder has got past the preparers.
Past(p) ==
    \/ p \in Switcher /\ pc[p] \in {"holding", "locked", "donor", "unlocking", "unlocked"}
    \/ p \in Handler /\ pc[p] \in {"holding", "unlocking"}
    \/ p \in Checker /\ pc[p] \in {"holding", "held"}

\* The barrier excludes: preparers and holders that are past it.
Excludes ==
    \A p \in Holder, q \in Preparer :
        Past(p) /\ (p \in FullHolder \/ q \in Backend) => ~Counted(q)

\* The checker has waited for the transactions prepared before.
HeldIsClear == \A c \in Checker : pc[c] = "held" => own = {}

IInv ==
    /\ TypeOK
    /\ Places
    /\ CountersExact
    /\ CountedInMode
    /\ Excludes
    /\ PrepareInOneGen
    /\ HeldIsClear

\* Leaves are for Zenon, unless they cite SMT.
USE ZenonT(60)

----------------------------------------------------------------------------

\* The mode of a process is that of its role, which is the only one it has.
LEMMA ModeOfRole ==
    /\ \A p \in Backend : ModeOf(p) = "backend_preparer"
    /\ \A p \in Applier : ModeOf(p) = "apply_preparer"
    /\ \A p \in Checker : ModeOf(p) = "backend_holder"
    /\ \A p \in FullHolder : ModeOf(p) = "full_holder"
BY ProcAssumption DEF ModeOf, FullHolder, Preparer, Holder

\* The processes a counter counts are finitely many.
LEMMA InModeFinite ==
    ASSUME NEW f, NEW m
    PROVE  /\ IsFiniteSet({p \in Proc : f[p] = m})
           /\ Cardinality({p \in Proc : f[p] = m}) \in Nat
BY ProcAssumption, FS_Subset, FS_CardinalityType

\* A counter is zero exactly when nobody is counted by it.
LEMMA ZeroMeansNobody ==
    ASSUME CountersExact, NEW m \in Mode, n[m] = 0, NEW p \in Proc
    PROVE  pbMode[p] # m
<1>1. Cardinality({q \in Proc : pbMode[q] = m}) = 0
  BY DEF CountersExact
<1>2. {q \in Proc : pbMode[q] = m} = {}
  BY <1>1, InModeFinite, FS_EmptySet
<1> QED
  BY <1>2

\* Taking the barrier keeps the counters exact.
LEMMA CountKeepsExact ==
    ASSUME TypeOK, CountersExact, NEW p \in Proc, pbMode[p] = "none", ModeOf(p) \in Mode, Count(p)
    PROVE  n' \in [Mode -> Nat] /\ pbMode' \in [Proc -> Mode \cup {"none"}] /\ CountersExact'
<1> DEFINE In(m) == {q \in Proc : pbMode[q] = m}
           In2(m) == {q \in Proc : pbMode'[q] = m}
<1>1. n' \in [Mode -> Nat] /\ pbMode' \in [Proc -> Mode \cup {"none"}]
  BY SMTT(30) DEF Count, TypeOK
<1>2. ASSUME NEW m \in Mode PROVE n'[m] = Cardinality(In2(m))
  <2>1. CASE m # ModeOf(p)
    <3>1. In2(m) = In(m)
      BY <2>1 DEF Count, TypeOK, Mode
    <3> QED
      BY <2>1, <3>1 DEF Count, TypeOK, CountersExact
  <2>2. CASE m = ModeOf(p)
    <3>1. In2(m) = In(m) \cup {p} /\ p \notin In(m)
      BY <2>2 DEF Count, TypeOK, Mode
    <3>2. Cardinality(In2(m)) = Cardinality(In(m)) + 1
      <4> HIDE DEF In, In2
      <4>1. IsFiniteSet(In(m))
        BY InModeFinite DEF In
      <4> QED
        BY <3>1, <4>1, FS_AddElement
    <3> QED
      BY <2>2, <3>2 DEF Count, TypeOK, CountersExact
  <2> QED
    BY <2>1, <2>2
<1> QED
  BY <1>1, <1>2 DEF CountersExact

\* Giving it back does, too.
LEMMA ReleaseKeepsExact ==
    ASSUME TypeOK, CountersExact, NEW p \in Proc, ReleasePB(p)
    PROVE  n' \in [Mode -> Nat] /\ pbMode' \in [Proc -> Mode \cup {"none"}] /\ CountersExact'
<1> DEFINE In(m) == {q \in Proc : pbMode[q] = m}
           In2(m) == {q \in Proc : pbMode'[q] = m}
<1>1. pbMode' \in [Proc -> Mode \cup {"none"}]
  BY DEF ReleasePB, TypeOK
<1>2. ASSUME NEW m \in Mode PROVE n'[m] = Cardinality(In2(m))
  <2>1. CASE m # pbMode[p]
    <3>1. In2(m) = In(m)
      BY <2>1 DEF ReleasePB, TypeOK, Mode
    <3> QED
      BY <2>1, <3>1 DEF ReleasePB, TypeOK, CountersExact
  <2>2. CASE m = pbMode[p]
    <3>1. In2(m) = In(m) \ {p} /\ p \in In(m)
      BY <2>2 DEF ReleasePB, TypeOK, Mode
    <3>2. Cardinality(In2(m)) = Cardinality(In(m)) - 1
      <4> HIDE DEF In, In2
      <4>1. IsFiniteSet(In(m))
        BY InModeFinite DEF In
      <4> QED
        BY <3>1, <4>1, FS_RemoveElement
    <3>3. n'[m] = n[m] - 1
      BY <2>2 DEF ReleasePB, TypeOK, Mode
    <3> QED
      BY <3>2, <3>3 DEF CountersExact
  <2> QED
    BY <2>1, <2>2
<1>3. n' \in [Mode -> Nat]
  <2>1. ASSUME NEW m \in Mode PROVE n'[m] \in Nat
    <3>1. Cardinality(In2(m)) \in Nat
      BY InModeFinite
    <3> QED
      BY <1>2, <3>1
  <2>2. n' \in [Mode -> Int]
    BY SMTT(30) DEF ReleasePB, TypeOK
  <2> QED
    BY <2>1, <2>2
<1> QED
  BY <1>1, <1>2, <1>3 DEF CountersExact
----------------------------------------------------------------------------

\* The invariant holds before anybody takes the barrier.
LEMMA InitIInv == Init => IInv
<1> SUFFICES ASSUME Init PROVE IInv
  OBVIOUS
<1> USE DEF Init
<1>1. TypeOK
  BY SMTT(30), MaxGenAssumption DEF TypeOK
<1>2. Places
  BY DEF Places, Preparer, Holder, Proc
<1>3. CountersExact
  <2> SUFFICES ASSUME NEW m \in Mode PROVE n[m] = Cardinality({p \in Proc : pbMode[p] = m})
    BY DEF CountersExact
  <2>1. {p \in Proc : pbMode[p] = m} = {}
    BY DEF Mode
  <2> QED
    BY <2>1, FS_EmptySet
<1>4. CountedInMode /\ Excludes /\ PrepareInOneGen /\ HeldIsClear
  BY DEF CountedInMode, Excludes, PrepareInOneGen, HeldIsClear, Counted, Past, Preparer, Holder, Proc
<1> QED
  BY <1>1, <1>2, <1>3, <1>4 DEF IInv

\* A process that takes the barrier: a preparer finds no holder in its way.
LEMMA AcquireByPreparer ==
    ASSUME IInv, NEW p \in Proc, AcquirePBByPreparer(p)
    PROVE  IInv'
<1> USE DEF IInv
<1>1. p \in Preparer /\ pc[p] = "idle" /\ pbMode[p] = "none" /\ ModeOf(p) \in Mode
  BY ProcAssumption, ModeOfRole
  DEF AcquirePBByPreparer, Go, GoWith, CountedInMode, Counted, Preparer, Holder, Mode
<1>2. CountersExact' /\ n' \in [Mode -> Nat] /\ pbMode' \in [Proc -> Mode \cup {"none"}]
  BY <1>1, CountKeepsExact DEF AcquirePBByPreparer
<1>3. /\ pc' = [pc EXCEPT ![p] = "inside"] /\ arg' = arg
      /\ pbMode' = [pbMode EXCEPT ![p] = ModeOf(p)]
      /\ UNCHANGED <<excl, shared, gen, status, own>>
  BY DEF AcquirePBByPreparer, Go, GoWith, Count, locks, state, TypeOK
<1>4. TypeOK'
  BY <1>2, <1>3 DEF TypeOK
<1>5. Places'
  BY SMTT(30), <1>1, <1>3, ProcAssumption DEF Places, TypeOK, Preparer, Holder, Proc
<1>6. CountedInMode'
  BY <1>1, <1>3 DEF CountedInMode, Counted, TypeOK
<1>7. Excludes'
  <2>1. ASSUME NEW h \in FullHolder PROVE ~Past(h)
    <3>1. pbMode[h] # "full_holder" /\ h \in Proc
      BY ZeroMeansNobody DEF AcquirePBByPreparer, Mode, FullHolder, Proc, Holder
    <3> QED
      BY <2>1, <3>1, ModeOfRole, ProcAssumption DEF Past, CountedInMode, Counted, FullHolder
  <2>2. ASSUME NEW h \in Checker, p \in Backend PROVE ~Past(h)
    <3>1. pbMode[h] # "backend_holder" /\ h \in Proc
      BY <2>2, ZeroMeansNobody DEF AcquirePBByPreparer, Mode, Proc, Holder
    <3> QED
      BY <2>2, <3>1, ModeOfRole, ProcAssumption DEF Past, CountedInMode, Counted
  <2>3. ASSUME NEW h \in Holder PROVE Past(h)' = Past(h)
    BY <1>1, <1>3, ProcAssumption DEF Past, TypeOK, Proc
  <2>4. ASSUME NEW q \in Preparer, q # p PROVE Counted(q)' = Counted(q)
    BY <2>4, <1>1, <1>3, ProcAssumption DEF Counted, TypeOK, Proc
  <2> QED
    BY <2>1, <2>2, <2>3, <2>4 DEF Excludes, Holder, FullHolder
<1>8. PrepareInOneGen'
  BY <1>1, <1>3 DEF PrepareInOneGen, TypeOK, Proc
<1>9. HeldIsClear'
  BY <1>1, <1>3, ProcAssumption DEF HeldIsClear, TypeOK, Proc, Holder
<1> QED
  BY <1>2, <1>4, <1>5, <1>6, <1>7, <1>8, <1>9

\* A holder is counted before it waits, and excludes nobody by that.
LEMMA AcquireByHolder ==
    ASSUME IInv, NEW p \in Holder,
           NEW from \in {"idle", "called", "locked"}, AcquirePBByHolder(p, from),
           \/ p \in Switcher /\ from = "called"
           \/ p \in Handler /\ from = "locked"
           \/ p \in Checker /\ from = "idle"
    PROVE  IInv'
<1> USE DEF IInv
<1>1. pc[p] = from /\ pbMode[p] = "none" /\ ModeOf(p) \in Mode /\ p \in Proc
  BY ProcAssumption, ModeOfRole
  DEF AcquirePBByHolder, Go, GoWith, CountedInMode, Counted, Holder, FullHolder, Mode, Proc
<1>2. CountersExact' /\ n' \in [Mode -> Nat] /\ pbMode' \in [Proc -> Mode \cup {"none"}]
  BY <1>1, CountKeepsExact DEF AcquirePBByHolder
<1>3. /\ pc' = [pc EXCEPT ![p] = "waiting"] /\ arg' = arg
      /\ pbMode' = [pbMode EXCEPT ![p] = ModeOf(p)]
      /\ UNCHANGED <<excl, shared, gen, status, own>>
  BY <1>1 DEF AcquirePBByHolder, Go, GoWith, Count, locks, state, TypeOK
<1>4. TypeOK'
  BY <1>1, <1>2, <1>3 DEF TypeOK
<1>5. Places'
  BY <1>1, <1>3, ProcAssumption DEF Places, TypeOK, Preparer, Holder, Proc
<1>6. CountedInMode'
  BY <1>1, <1>3, ProcAssumption DEF CountedInMode, Counted, TypeOK, Holder
<1>7. Excludes'
  <2>1. ASSUME NEW h \in Holder PROVE Past(h)' => Past(h)
    BY <1>1, <1>3 DEF Past, TypeOK, Proc
  <2>2. ASSUME NEW q \in Preparer PROVE Counted(q)' = Counted(q)
    BY <1>1, <1>3, ProcAssumption DEF Counted, TypeOK, Proc, Holder
  <2> QED
    BY <2>1, <2>2 DEF Excludes
<1>8. PrepareInOneGen'
  BY <1>1, <1>3, ProcAssumption DEF PrepareInOneGen, TypeOK, Proc
<1>9. HeldIsClear'
  BY <1>1, <1>3, ProcAssumption DEF HeldIsClear, TypeOK, Proc, Holder
<1> QED
  BY <1>2, <1>4, <1>5, <1>6, <1>7, <1>8, <1>9

\* A process that gives the barrier back, at the end or by an error.
LEMMA Release ==
    ASSUME IInv, NEW p \in Proc, p \notin Reader, NEW to \in {"idle", "leaving"},
           to = "leaving" => p \in FullHolder,
           Go(p, pc[p], to), ReleasePB(p), UNCHANGED <<locks, gen, status>>,
           own' = own \/ (p \in Backend /\ pc[p] = "preparing" /\ own' = own \cup {p})
    PROVE  IInv'
<1> USE DEF IInv
<1>1. CountersExact' /\ n' \in [Mode -> Nat] /\ pbMode' \in [Proc -> Mode \cup {"none"}]
  BY ReleaseKeepsExact
<1>2. /\ pc' = [pc EXCEPT ![p] = to] /\ arg' \in [Proc -> 0 .. MaxGen]
      /\ \A q \in Proc : q # p => arg'[q] = arg[q]
      /\ pbMode' = [pbMode EXCEPT ![p] = "none"]
      /\ UNCHANGED <<excl, shared, gen, status>>
  BY SMTT(30), MaxGenAssumption DEF Go, GoWith, ReleasePB, locks, TypeOK
<1>3. TypeOK'
  BY <1>1, <1>2 DEF TypeOK
<1>4. Places'
  BY SMTT(30), <1>2, ProcAssumption DEF Places, TypeOK, Preparer, Holder, FullHolder, Proc
<1>5. CountedInMode'
  BY <1>2 DEF CountedInMode, Counted, TypeOK
<1>6. Excludes'
  <2>1. ASSUME NEW h \in Holder PROVE Past(h)' => Past(h)
    BY <1>2 DEF Past, TypeOK, Proc
  <2>2. ASSUME NEW q \in Preparer PROVE Counted(q)' => Counted(q)
    BY <1>2 DEF Counted, TypeOK, Proc
  <2> QED
    BY <2>1, <2>2 DEF Excludes
<1>7. PrepareInOneGen'
  BY <1>2 DEF PrepareInOneGen, TypeOK, Proc
<1>8. HeldIsClear'
  <2>1. ASSUME NEW c \in Checker PROVE pc'[c] = "held" => pc[c] = "held"
    BY <1>2 DEF TypeOK, Proc, Holder
  <2>2. CASE own' = own
    BY <2>1, <2>2 DEF HeldIsClear
  <2>3. CASE p \in Backend /\ pc[p] = "preparing"
    <3>1. p \in Preparer /\ Counted(p)
      BY <2>3 DEF Counted, Preparer
    <3>2. ASSUME NEW c \in Checker PROVE pc[c] # "held"
      BY <2>3, <3>1 DEF Excludes, Past, Holder
    <3> QED
      BY <2>1, <3>2 DEF HeldIsClear
  <2> QED
    BY <2>2, <2>3
<1> QED
  BY <1>1, <1>3, <1>4, <1>5, <1>6, <1>7, <1>8

\* A step that leaves the barrier alone.
LEMMA Quiet ==
    ASSUME IInv, NEW p \in Proc, NEW to, pc' = [pc EXCEPT ![p] = to], UNCHANGED <<pbMode, n>>,
           Counted(p)' = Counted(p), Past(p)' => Past(p)
    PROVE  CountersExact' /\ CountedInMode' /\ Excludes'
<1> USE DEF IInv
<1>1. CountersExact'
  BY DEF CountersExact
<1>2. ASSUME NEW q \in Proc PROVE Counted(q)' = Counted(q) /\ (Past(q)' => Past(q))
  BY DEF Counted, Past, TypeOK
<1>3. CountedInMode'
  <2> SUFFICES ASSUME NEW q \in Proc
               PROVE  pbMode'[q] = IF Counted(q)' THEN ModeOf(q) ELSE "none"
    BY DEF CountedInMode, ModeOf
  <2> QED
    BY <1>2 DEF CountedInMode
<1>4. Excludes'
  BY <1>2 DEF Excludes, Proc
<1> QED
  BY <1>1, <1>3, <1>4

\* A holder gets past the preparers when the counters say there are none.
LEMMA HeldKeeps ==
    ASSUME IInv, NEW p \in Proc, PBHeld(p)
    PROVE  IInv'
<1> USE DEF IInv
<1>1. /\ p \in Holder /\ pc[p] = "waiting" /\ pc' = [pc EXCEPT ![p] = "holding"]
      /\ UNCHANGED <<pbMode, n, excl, shared, gen, status, arg, own>>
  BY DEF PBHeld, Go, GoWith, locks, state, TypeOK
<1>2. TypeOK' /\ CountersExact'
  BY <1>1 DEF TypeOK, CountersExact
<1>3. Places'
  BY <1>1, ProcAssumption DEF Places, TypeOK, Preparer, Holder, Proc
<1>4. ASSUME NEW q \in Proc PROVE Counted(q)' = Counted(q)
  BY <1>1, ProcAssumption DEF Counted, TypeOK, Holder
<1>5. CountedInMode'
  <2> SUFFICES ASSUME NEW q \in Proc
               PROVE  pbMode'[q] = IF Counted(q)' THEN ModeOf(q) ELSE "none"
    BY DEF CountedInMode, ModeOf
  <2> QED
    BY <1>1, <1>4 DEF CountedInMode
<1>6. Excludes'
  <2>1. ASSUME NEW q \in Backend PROVE ~Counted(q)
    <3>1. pbMode[q] # "backend_preparer" /\ q \in Proc
      BY ZeroMeansNobody DEF PBHeld, Mode, Proc, Preparer
    <3> QED
      BY <2>1, <3>1, ModeOfRole DEF CountedInMode
  <2>2. ASSUME NEW q \in Applier, p \in FullHolder PROVE ~Counted(q)
    <3>1. pbMode[q] # "apply_preparer" /\ q \in Proc
      BY <2>2, ZeroMeansNobody, ModeOfRole DEF PBHeld, Mode, Proc, Preparer
    <3> QED
      BY <2>2, <3>1, ModeOfRole DEF CountedInMode
  <2>3. ASSUME NEW h \in Holder, h # p PROVE Past(h)' = Past(h)
    BY <2>3, <1>1 DEF Past, TypeOK, Proc
  <2> QED
    BY <2>1, <2>2, <2>3, <1>4 DEF Excludes, Preparer, Proc
<1>7. PrepareInOneGen'
  BY <1>1, ProcAssumption DEF PrepareInOneGen, TypeOK, Proc
<1>8. HeldIsClear'
  BY <1>1, ProcAssumption DEF HeldIsClear, TypeOK, Proc, Holder
<1> QED
  BY <1>2, <1>3, <1>5, <1>6, <1>7, <1>8

\* A step of a holder or a reader that touches gen_lock at most.
LEMMA LockStep ==
    ASSUME IInv, NEW p \in Holder \cup Reader, NEW to, NEW a \in 0 .. MaxGen,
           GoWith(p, pc[p], to, a), UNCHANGED <<pbMode, n, state>>,
           excl' \subseteq Proc, shared' \subseteq Proc,
           \/ p \in Switcher /\ <<pc[p], to>> \in {<<"idle", "called">>, <<"holding", "locked">>,
                  <<"leaving", "idle">>, <<"unlocking", "unlocked">>, <<"locked", "unlocked">>}
           \/ p \in Handler /\ <<pc[p], to>> \in {<<"idle", "called">>, <<"called", "locked">>,
                  <<"leaving", "idle">>}
           \/ p \in Reader /\ <<pc[p], to>> \in {<<"idle", "reading">>, <<"reading", "idle">>}
    PROVE  IInv'
<1> USE DEF IInv
<1>1. /\ pc' = [pc EXCEPT ![p] = to] /\ arg' = [arg EXCEPT ![p] = a] /\ p \in Proc
      /\ UNCHANGED <<pbMode, n, gen, status, own>>
  BY DEF GoWith, state, Proc
<1>2. TypeOK'
  BY <1>1 DEF TypeOK
<1>3. Places'
  BY SMTT(30), <1>1, ProcAssumption DEF Places, TypeOK, Preparer, Holder, Proc
<1>4. Counted(p)' = Counted(p) /\ (Past(p)' => Past(p))
  BY <1>1, ProcAssumption DEF Counted, Past, TypeOK, Holder
<1>5. CountersExact' /\ CountedInMode' /\ Excludes'
  BY <1>1, <1>4, Quiet
<1>6. PrepareInOneGen'
  BY <1>1, ProcAssumption DEF PrepareInOneGen, TypeOK, Proc
<1>7. HeldIsClear'
  BY <1>1, ProcAssumption DEF HeldIsClear, TypeOK, Proc, Holder
<1> QED
  BY <1>2, <1>3, <1>5, <1>6, <1>7

\* A step that changes the generation or the status in it.
LEMMA StateStep ==
    ASSUME IInv, NEW p \in FullHolder, NEW to,
           Go(p, pc[p], to), UNCHANGED <<pbMode, n, locks, own>>,
           gen' \in 0 .. MaxGen, status' \in {"none", "online", "recovery", "dead"},
           \/ p \in Switcher /\ <<pc[p], to>> \in {<<"locked", "unlocking">>,
                  <<"locked", "donor">>, <<"donor", "unlocking">>}
           \/ p \in Handler /\ <<pc[p], to>> = <<"holding", "unlocking">>
    PROVE  IInv'
<1> USE DEF IInv
<1>1. /\ pc' = [pc EXCEPT ![p] = to] /\ p \in Proc /\ p \in Holder
      /\ UNCHANGED <<pbMode, n, excl, shared, own>>
  BY DEF Go, GoWith, locks, Proc, Holder, FullHolder
<1>2. TypeOK'
  <2>1. arg' \in [Proc -> 0 .. MaxGen]
    BY SMTT(30), MaxGenAssumption, <1>1 DEF Go, GoWith, TypeOK
  <2> QED
    BY <1>1, <2>1 DEF TypeOK
<1>3. Places'
  BY SMTT(30), <1>1, ProcAssumption DEF Places, TypeOK, Preparer, Holder, FullHolder, Proc
<1>4. Counted(p)' = Counted(p) /\ Past(p)
  BY <1>1, ProcAssumption DEF Counted, Past, TypeOK, Holder
<1>5. CountersExact' /\ CountedInMode' /\ Excludes'
  BY <1>1, <1>4, Quiet
<1>6. PrepareInOneGen'
  <2>1. ASSUME NEW q \in Preparer PROVE pc'[q] # "preparing"
    <3>1. ~Counted(q)
      BY <1>1, <1>4 DEF Excludes
    <3> QED
      BY <1>1, <3>1, ProcAssumption DEF Counted, TypeOK, Proc
  <2> QED
    BY <2>1 DEF PrepareInOneGen
<1>7. HeldIsClear'
  BY <1>1, ProcAssumption DEF HeldIsClear, TypeOK, Proc, Holder
<1> QED
  BY <1>2, <1>3, <1>5, <1>6, <1>7

\* A preparer reads the generation.
LEMMA ReadKeeps ==
    ASSUME IInv, NEW p \in Proc, ReadGeneration(p)
    PROVE  IInv'
<1> USE DEF IInv
<1>1. /\ p \in Preparer /\ pc[p] = "inside" /\ pc' = [pc EXCEPT ![p] = "preparing"]
      /\ arg' = [arg EXCEPT ![p] = gen] /\ (p \in Backend => status = "online")
      /\ UNCHANGED <<pbMode, n, excl, shared, gen, status, own>>
  BY DEF ReadGeneration, GoWith, locks, state
<1>2. TypeOK'
  BY SMTT(30), <1>1 DEF TypeOK
<1>3. Places'
  BY <1>1, ProcAssumption DEF Places, TypeOK, Preparer, Holder, Proc
<1>4. Counted(p)' = Counted(p) /\ ~Past(p)'
  BY <1>1, ProcAssumption DEF Counted, Past, TypeOK, Holder
<1>5. CountersExact' /\ CountedInMode' /\ Excludes'
  BY <1>1, <1>4, Quiet
<1>6. PrepareInOneGen'
  BY <1>1 DEF PrepareInOneGen, TypeOK, Proc
<1>7. HeldIsClear'
  BY <1>1, ProcAssumption DEF HeldIsClear, TypeOK, Proc, Holder
<1> QED
  BY <1>2, <1>3, <1>5, <1>6, <1>7

\* The checker finds nothing prepared.
LEMMA OwnFinishedKeeps ==
    ASSUME IInv, NEW p \in Checker, OwnFinished(p)
    PROVE  IInv'
<1> USE DEF IInv
<1>1. /\ pc[p] = "holding" /\ pc' = [pc EXCEPT ![p] = "held"] /\ own = {} /\ p \in Proc
      /\ UNCHANGED <<pbMode, n, excl, shared, gen, status, arg, own>>
  BY DEF OwnFinished, Go, GoWith, locks, state, TypeOK, Proc, Holder
<1>2. TypeOK'
  BY <1>1 DEF TypeOK
<1>3. Places'
  BY SMTT(30), <1>1, ProcAssumption DEF Places, TypeOK, Preparer, Holder, Proc
<1>4. Counted(p)' = Counted(p) /\ (Past(p)' => Past(p))
  BY <1>1, ProcAssumption DEF Counted, Past, TypeOK, Holder
<1>5. CountersExact' /\ CountedInMode' /\ Excludes'
  BY <1>1, <1>4, Quiet
<1>6. PrepareInOneGen' /\ HeldIsClear'
  BY <1>1, ProcAssumption DEF PrepareInOneGen, HeldIsClear, TypeOK, Proc, Holder
<1> QED
  BY <1>2, <1>3, <1>5, <1>6

----------------------------------------------------------------------------

\* Every step preserves the invariant.
LEMMA NextIInv == IInv /\ [Next]_vars => IInv'
<1> SUFFICES ASSUME IInv, [Next]_vars PROVE IInv'
  OBVIOUS
<1> USE DEF IInv
<1>1. ASSUME NEW p \in Proc, Start(p) PROVE IInv'
  <2>1. CASE AcquirePBByPreparer(p)
    BY <2>1, AcquireByPreparer
  <2>2. CASE FastPath(p)
    <3>1. PICK g \in (gen + 1) .. MaxGen : GoWith(p, "idle", "called", g)
      BY <2>2 DEF FastPath
    <3>2. g \in 0 .. MaxGen /\ p \in Switcher /\ p \in Holder /\ pc[p] = "idle"
      BY SMTT(30), <2>2, <3>1 DEF FastPath, TypeOK, GoWith, Holder
    <3> QED
      BY <2>2, <3>1, <3>2, LockStep DEF FastPath, locks, TypeOK
  <2>3. CASE HandleParallelSafe(p)
    <3>1. PICK g \in 1 .. gen : GoWith(p, "idle", "called", g)
      BY <2>3 DEF HandleParallelSafe
    <3>2. p \in Handler /\ p \in Holder /\ pc[p] = "idle"
      BY <2>3, <3>1 DEF HandleParallelSafe, GoWith, Holder
    <3>3. g \in 0 .. MaxGen
      <4>1. gen \in 0 .. MaxGen
        BY DEF TypeOK
      <4> QED
        BY SMTT(30), <3>1, <4>1, MaxGenAssumption
    <3> QED
      BY <2>3, <3>1, <3>2, <3>3, LockStep DEF HandleParallelSafe, locks, TypeOK
  <2>4. CASE p \in Checker /\ AcquirePBByHolder(p, "idle")
    BY <2>4, AcquireByHolder DEF Holder
  <2>5. CASE LockGenShared(p)
    <3>1. GoWith(p, pc[p], "reading", arg[p]) /\ pc[p] = "idle" /\ arg[p] \in 0 .. MaxGen
      BY <2>5 DEF LockGenShared, Go, GoWith, TypeOK
    <3> QED
      BY <2>5, <3>1, LockStep DEF LockGenShared, TypeOK
  <2>6. CASE StateStartup(p)
    <3>1. GoWith(p, pc[p], "called", 0) /\ pc[p] = "idle" /\ p \in Switcher /\ p \in Holder
      BY <2>6 DEF StateStartup, GoWith, Holder
    <3>2. 0 \in 0 .. MaxGen
      BY SMTT(30), MaxGenAssumption
    <3> QED
      BY <2>6, <3>1, <3>2, LockStep DEF StateStartup, locks, TypeOK
  <2> QED
    BY <1>1, <2>1, <2>2, <2>3, <2>4, <2>5, <2>6 DEF Start
<1>2. ASSUME NEW p \in Proc, PreparerStep(p) PROVE IInv'
  <2>1. CASE ReadGeneration(p)
    BY <2>1, ReadKeeps
  <2>2. CASE NotOnline(p)
    <3>1. p \notin Reader /\ Go(p, pc[p], "idle")
      BY <2>2, ProcAssumption DEF NotOnline, Go, GoWith, Preparer
    <3> QED
      BY <2>2, <3>1, Release DEF NotOnline, state
  <2>3. CASE Prepared(p)
    <3>1. p \notin Reader /\ Go(p, pc[p], "idle")
      BY <2>3 DEF Prepared, Go, GoWith, Places
    <3>2. own' = own \/ (p \in Backend /\ pc[p] = "preparing" /\ own' = own \cup {p})
      BY <2>3 DEF Prepared, Go, GoWith
    <3> QED
      BY <2>3, <3>1, <3>2, Release DEF Prepared
  <2> QED
    BY <1>2, <2>1, <2>2, <2>3 DEF PreparerStep
<1>3. ASSUME NEW p \in Proc, SwitcherLock(p) \/ SwitcherStep(p) PROVE IInv'
  <2> p \in Switcher /\ p \in Holder /\ p \in FullHolder /\ p \notin Reader /\ arg[p] \in 0 .. MaxGen
    BY <1>3, ProcAssumption DEF SwitcherLock, SwitcherStep, Holder, FullHolder, TypeOK
  <2>1. CASE LockGenExclusive(p, "holding", "locked")
    <3>1. GoWith(p, pc[p], "locked", arg[p]) /\ pc[p] = "holding"
      BY <2>1 DEF LockGenExclusive, Go, GoWith
    <3> QED
      BY <2>1, <3>1, LockStep DEF LockGenExclusive, TypeOK
  <2>2. CASE AcquirePBByHolder(p, "called")
    BY <2>2, AcquireByHolder
  <2>3. CASE PBHeld(p)
    BY <2>3, HeldKeeps
  <2>4. CASE UpdateGeneration(p)
    <3>1. gen' \in 0 .. MaxGen /\ status' \in {"none", "online", "recovery", "dead"}
      BY <2>4 DEF UpdateGeneration, TypeOK
    <3>2. PICK to \in {"unlocking", "donor"} : Go(p, pc[p], to) /\ pc[p] = "locked"
      BY <2>4 DEF UpdateGeneration, Go, GoWith
    <3> QED
      BY <2>4, <3>1, <3>2, StateStep DEF UpdateGeneration
  <2>5. CASE BecomeOnlineAsDonor(p)
    <3>1. gen' \in 0 .. MaxGen /\ status' \in {"none", "online", "recovery", "dead"}
      BY <2>5 DEF BecomeOnlineAsDonor, TypeOK
    <3>2. Go(p, pc[p], "unlocking") /\ pc[p] = "donor"
      BY <2>5 DEF BecomeOnlineAsDonor, Go, GoWith
    <3> QED
      BY <2>5, <3>1, <3>2, StateStep DEF BecomeOnlineAsDonor
  <2>6. CASE SwitchedAlready(p)
    <3>1. Go(p, pc[p], "leaving")
      BY <2>6 DEF SwitchedAlready, Go, GoWith
    <3> QED
      BY <2>6, <3>1, Release DEF SwitchedAlready, state
  <2>7. CASE UnlockGen(p, "leaving", "idle")
    <3>1. GoWith(p, pc[p], "idle", 0) /\ pc[p] = "leaving" /\ 0 \in 0 .. MaxGen
      BY SMTT(30), <2>7, MaxGenAssumption DEF UnlockGen, Go, GoWith
    <3> QED
      BY <2>7, <3>1, LockStep DEF UnlockGen, TypeOK
  <2>8. CASE UnlockGen(p, "unlocking", "unlocked")
    <3>1. GoWith(p, pc[p], "unlocked", 0) /\ pc[p] = "unlocking" /\ 0 \in 0 .. MaxGen
      BY SMTT(30), <2>8, MaxGenAssumption DEF UnlockGen, Go, GoWith
    <3> QED
      BY <2>8, <3>1, LockStep DEF UnlockGen, TypeOK
  <2>9. CASE UnlockPB(p, "unlocked", "idle")
    <3>1. Go(p, pc[p], "idle")
      BY <2>9 DEF UnlockPB, Go, GoWith
    <3> QED
      BY <2>9, <3>1, Release DEF UnlockPB, state
  <2>10. CASE LoadState(p)
    <3>1. gen' \in 0 .. MaxGen
      <4>1. gen \in 0 .. MaxGen
        BY DEF TypeOK
      <4>2. gen' = gen \/ gen' \in 1 .. MaxGen
        BY <2>10 DEF LoadState
      <4> QED
        BY SMTT(30), <4>1, <4>2, MaxGenAssumption
    <3>2. status' \in {"none", "online", "recovery", "dead"}
      BY <2>10 DEF LoadState, TypeOK
    <3>3. Go(p, pc[p], "unlocking") /\ pc[p] = "locked"
      BY <2>10 DEF LoadState, Go, GoWith
    <3> QED
      BY <2>10, <3>1, <3>2, <3>3, StateStep DEF LoadState
  <2>11. CASE NotInitialized(p)
    <3>1. GoWith(p, pc[p], "unlocked", 0) /\ pc[p] = "locked" /\ 0 \in 0 .. MaxGen
      BY SMTT(30), <2>11, MaxGenAssumption DEF NotInitialized, Go, GoWith
    <3> QED
      BY <2>11, <3>1, LockStep DEF NotInitialized, TypeOK
  <2> QED
    BY <1>3, <2>1, <2>2, <2>3, <2>4, <2>5, <2>6, <2>7, <2>8, <2>9, <2>10, <2>11
    DEF SwitcherLock, SwitcherStep
<1>4. ASSUME NEW p \in Proc, HandlerLock(p) \/ HandlerStep(p) PROVE IInv'
  <2> p \in Handler /\ p \in Holder /\ p \in FullHolder /\ p \notin Reader /\ arg[p] \in 0 .. MaxGen
    BY <1>4, ProcAssumption DEF HandlerLock, HandlerStep, Holder, FullHolder, TypeOK
  <2>1. CASE LockGenExclusive(p, "called", "locked")
    <3>1. GoWith(p, pc[p], "locked", arg[p]) /\ pc[p] = "called"
      BY <2>1 DEF LockGenExclusive, Go, GoWith
    <3> QED
      BY <2>1, <3>1, LockStep DEF LockGenExclusive, TypeOK
  <2>2. CASE AcquirePBByHolder(p, "locked")
    BY <2>2, AcquireByHolder
  <2>3. CASE PBHeld(p)
    BY <2>3, HeldKeeps
  <2>4. CASE BecomeOnline(p)
    <3>1. gen' \in 0 .. MaxGen /\ status' \in {"none", "online", "recovery", "dead"}
      BY <2>4 DEF BecomeOnline, TypeOK
    <3>2. Go(p, pc[p], "unlocking") /\ pc[p] = "holding"
      BY <2>4 DEF BecomeOnline, Go, GoWith
    <3> QED
      BY <2>4, <3>1, <3>2, StateStep DEF BecomeOnline
  <2>5. CASE UnlockPB(p, "unlocking", "leaving")
    <3>1. Go(p, pc[p], "leaving")
      BY <2>5 DEF UnlockPB, Go, GoWith
    <3> QED
      BY <2>5, <3>1, Release DEF UnlockPB, state
  <2>6. CASE UnlockGen(p, "leaving", "idle")
    <3>1. GoWith(p, pc[p], "idle", 0) /\ pc[p] = "leaving" /\ 0 \in 0 .. MaxGen
      BY SMTT(30), <2>6, MaxGenAssumption DEF UnlockGen, Go, GoWith
    <3> QED
      BY <2>6, <3>1, LockStep DEF UnlockGen, TypeOK
  <2> QED
    BY <1>4, <2>1, <2>2, <2>3, <2>4, <2>5, <2>6 DEF HandlerLock, HandlerStep
<1>5. ASSUME NEW p \in Proc, CheckerStep(p) PROVE IInv'
  <2>1. CASE PBHeld(p)
    BY <2>1, HeldKeeps
  <2>2. CASE UnlockPB(p, "held", "idle")
    <3>1. p \notin Reader /\ Go(p, pc[p], "idle")
      BY <1>5, <2>2, ProcAssumption DEF CheckerStep, UnlockPB, Go, GoWith, Holder
    <3> QED
      BY <2>2, <3>1, Release DEF UnlockPB, state
  <2>3. CASE OwnFinished(p)
    BY <1>5, <2>3, OwnFinishedKeeps DEF CheckerStep
  <2> QED
    BY <1>5, <2>1, <2>2, <2>3 DEF CheckerStep
<1>6. ASSUME NEW p \in Proc, UnlockGenShared(p) PROVE IInv'
  <2>1. GoWith(p, pc[p], "idle", 0) /\ pc[p] = "reading" /\ 0 \in 0 .. MaxGen
    BY SMTT(30), <1>6, MaxGenAssumption DEF UnlockGenShared, Go, GoWith
  <2>2. p \in Reader
    BY <2>1 DEF Places, Proc, Holder
  <2> QED
    BY <1>6, <2>1, <2>2, LockStep DEF UnlockGenShared, TypeOK
<1>7. ASSUME NEW p \in Proc, Fail(p) PROVE IInv'
  <2>1. p \notin Reader /\ Go(p, pc[p], "idle")
    BY <1>7 DEF Fail, Places
  <2>2. own' = own \/ (p \in Backend /\ pc[p] = "preparing" /\ own' = own \cup {p})
    BY <1>7 DEF Fail
  <2> QED
    BY <1>7, <2>1, <2>2, Release DEF Fail
<1>8. CASE UNCHANGED vars
  BY SMTT(30), <1>8 DEF vars, TypeOK, Places, CountersExact, CountedInMode, Counted, Excludes, Past,
              PrepareInOneGen, HeldIsClear
<1>9. ASSUME NEW p \in Proc, FinishOwn(p) PROVE IInv'
  <2>1. UNCHANGED <<pc, pbMode, n, excl, shared, gen, status, arg>> /\ own' \subseteq own
    BY <1>9 DEF FinishOwn, locks
  <2>2. TypeOK' /\ HeldIsClear'
    BY <2>1 DEF TypeOK, HeldIsClear
  <2>3. Places' /\ CountersExact' /\ CountedInMode' /\ Excludes' /\ PrepareInOneGen'
    BY SMTT(30), <2>1 DEF Places, CountersExact, CountedInMode, Counted, Excludes, Past, PrepareInOneGen
  <2> QED
    BY <2>2, <2>3
<1> QED
  BY <1>1, <1>2, <1>3, <1>4, <1>5, <1>6, <1>7, <1>8, <1>9 DEF Next, Step

----------------------------------------------------------------------------

\* The inductive invariant holds throughout.
THEOREM Invariance == Spec => []IInv
<1> QED
  BY InitIInv, NextIInv, PTL DEF Spec

\* The shared and the local state of the barrier stay well formed.
THEOREM TypeCorrect == Spec => []TypeOK
<1>1. IInv => TypeOK
  BY DEF IInv
<1> QED
  BY <1>1, Invariance, PTL

\* The counters in shared memory are exact, through errors, exits and early
\* returns of any number of processes.
THEOREM CountersStayExact == Spec => []CountersExact
<1>1. IInv => CountersExact
  BY DEF IInv
<1> QED
  BY <1>1, Invariance, PTL

\* The generation a preparer has read is the current one until its PREPARE
\* is in the WAL.
THEOREM PreparesInOneGen == Spec => []PrepareInOneGen
<1>1. IInv => PrepareInOneGen
  BY DEF IInv
<1> QED
  BY <1>1, Invariance, PTL

\* mtm_hold_backends keeps backends out of PREPARE, and when it returns no
\* transaction of this node is prepared.
THEOREM BackendsHeld == Spec => []CheckerExcludesBackends
<1>1. ASSUME IInv, NEW c \in Checker, NEW b \in Backend, pc[c] \in {"holding", "held"}
      PROVE  pbMode[b] = "none"
  <2>1. ~Counted(b)
    BY <1>1 DEF IInv, Excludes, Past, Holder, Preparer
  <2> QED
    BY <1>1, <2>1 DEF IInv, CountedInMode, Proc, Preparer
<1>2. IInv => CheckerExcludesBackends
  BY <1>1 DEF CheckerExcludesBackends, IInv, HeldIsClear
<1> QED
  BY <1>2, Invariance, PTL
=============================================================================
