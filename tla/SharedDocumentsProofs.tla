------------------------ MODULE SharedDocumentsProofs ------------------------
(***************************************************************************)
(* Proofs about SharedDocuments, for any finite set of callers and any     *)
(* finite set of documents.                                                *)
(***************************************************************************)
EXTENDS SharedDocuments, FiniteSetTheorems, WellFoundedInduction, TLAPS

-----------------------------------------------------------------------------
(* The order of the documents.                                             *)

\* Some document of a set comes first.
LEMMA LowestIsIn ==
  ASSUME NEW S \in SUBSET Documents, S # {}
  PROVE  Lowest(S) \in S
  <1>1. S \in SUBSET Nat
    BY DocumentsAssumption
  <1>2. PICK d \in S : \A e \in S : <<e, d>> \notin OpToRel(<, Nat)
    BY <1>1, NatLessThanWellFounded, WFMin, Zenon
  <1>3. ASSUME NEW e \in S PROVE d <= e
    <2>1. <<e, d>> \in Nat \X Nat
      BY <1>1
    <2>2. ~(<<e, d>>[1] < <<e, d>>[2])
      BY <1>2, <2>1 DEF OpToRel
    <2>3. QED
      BY <1>1, <2>2
  <1>4. QED
    BY <1>2, <1>3 DEF Lowest

-----------------------------------------------------------------------------
(* The inductive invariant.                                                *)

\* TypeOK, with no bound on the versions yet.
Typed ==
  /\ tree \in [Documents -> Changes]
  /\ version \in [Documents -> Nat]
  /\ holder \in [Documents -> Callers \cup {Nobody}]
  /\ pc \in [Callers -> PCs]
  /\ kind \in [Callers -> AllKinds]
  /\ docs \in [Callers -> SUBSET Documents]
  /\ source \in [Callers -> Documents]
  /\ checked \in [Callers -> BOOLEAN]
  /\ saw \in [Callers -> [Documents -> Nat]]
  /\ copy \in [Callers -> [Documents -> Changes]]
  /\ start \in [Callers -> [Documents -> Nat]]
  /\ todo \in [Callers -> SUBSET Documents]
  /\ outcome \in [Callers -> Outcomes]
  /\ seen \in [Callers -> [Documents -> Changes]]
  /\ basis \in [Callers -> [Documents -> Changes]]
  /\ applied \in [Documents -> Changes]

Unlocked == {"idle", "check", "render", "commit", "done"}
Inside   == {"check_locked", "run", "recheck", "swap", "mutate"}
Early    == {"idle", "check", "render", "lock", "check_locked", "run", "recheck", "mutate"}
BatchPCs == {"check_locked", "run", "recheck", "swap"}

\* The documents c's change is in.
Applies(c) == {d \in Documents : c \in applied[d]}

\* Where a caller stands: what it still has to do ...
Shape(c) ==
  /\ todo[c] \subseteq docs[c]
  /\ pc[c] # "idle" => source[c] \in docs[c]
  /\ pc[c] # "idle" /\ kind[c] \in Commands \ {"move"} => docs[c] = {source[c]}
  /\ pc[c] \in BatchPCs => kind[c] = "batch"
  /\ pc[c] \in {"check", "render", "mutate", "commit"} => kind[c] \in Commands
  /\ pc[c] = "commit" => kind[c] = "move"
  /\ pc[c] \in {"check_locked", "run", "recheck", "mutate"} => todo[c] = docs[c]
  /\ pc[c] \in {"swap", "bump", "commit"} => todo[c] # {}
  /\ pc[c] = "release" => todo[c] = {} \/ kind[c] = "move"
  /\ pc[c] \in {"idle", "check", "render", "done"} => todo[c] = {}

\* ... which locks it has ...
Holds(c) ==
  /\ \A d \in Documents : holder[d] = c => d \in docs[c]
  /\ pc[c] \in Unlocked => Held(c) = {}
  /\ pc[c] = "lock" => Held(c) # docs[c]
  /\ pc[c] \in Inside => Held(c) = docs[c]
  /\ pc[c] = "bump" => Held(c) = IF kind[c] = "move" THEN {} ELSE docs[c]
  /\ pc[c] = "release" => Held(c) # {}

\* ... what it has answered ...
Answers(c) ==
  /\ pc[c] \notin {"release", "done"} => outcome[c] = "pending"
  /\ pc[c] = "release" => (outcome[c] = "pending" <=> todo[c] # {})
  /\ pc[c] = "done" => outcome[c] # "pending"

\* ... and where its change is.
Applied(c) ==
  Applies(c) = CASE pc[c] \in Early \/ outcome[c] \in {"conflict", "failed"} -> {}
                 [] pc[c] \notin Early /\ outcome[c] \in {"pending", "ok"} ->
                      CASE kind[c] = "move" -> docs[c]
                        [] kind[c] # "move" /\ pc[c] = "bump" -> (docs[c] \ todo[c]) \cup {Turn(c)}
                        [] kind[c] # "move" /\ pc[c] # "bump" -> docs[c] \ todo[c]

\* The changes a document's version does not count yet, and the ones it does.
Pending(d) == {c \in applied[d] : d \in todo[c]}
Counted(d) == {c \in applied[d] : d \notin todo[c]}

\* A version, read or written, counts no change that was not made; that of a
\* document no move has touched counts them all.
VersionBounded ==
  \A d \in Documents :
    /\ version[d] <= 1 + Cardinality(Counted(d))
    /\ \A c \in Callers : /\ saw[c][d] <= 1 + Cardinality(Counted(d))
                          /\ start[c][d] <= 1 + Cardinality(Counted(d))
    /\ ~Moved(d) => version[d] = 1 + Cardinality(Counted(d))

\* Between the time a caller reads the version it will leave one behind and
\* the time it writes it, the version stands.
StartCurrent ==
  \A c \in Callers : \A d \in todo[c] :
    pc[c] \in {"recheck", "swap", "bump"} /\ kind[c] # "move" /\ ~Moved(d)
      => start[c][d] = version[d]

\* A version that still is what its caller read stands for the tree it read,
\* but while a change is made and not counted.
SawTree ==
  \A c \in Callers, d \in Documents :
    checked[c] /\ ~Moved(d) =>
      /\ saw[c][d] <= version[d]
      /\ saw[c][d] = version[d] => Pending(d) # {} \/ tree[d] = seen[c][d]

\* Once checked under the locks, the trees stay as they were read until the
\* caller's own change takes their place.
SeenUntilSwap ==
  \A c \in Callers : \A d \in docs[c] :
    /\ kind[c] \in {"batch", "apply_subtree"} /\ checked[c]
    /\ pc[c] \in {"run", "recheck", "swap", "bump"}
    /\ ~Moved(d)
    => IF c \in applied[d] THEN basis[c][d] = seen[c][d] ELSE tree[d] = seen[c][d]

\* An overlay is the live tree and the batch's own change.
OverlayCurrent ==
  \A c \in Callers : \A d \in docs[c] :
    kind[c] = "batch" /\ pc[c] \in {"recheck", "swap", "bump"} /\ c \notin applied[d]
      => copy[c][d] = tree[d] \cup {c}

\* Nothing is in a tree that was not applied to its document.
TreesApplied ==
  \A d \in Documents : /\ tree[d] \subseteq applied[d]
                       /\ \A c \in Callers : copy[c][d] \subseteq applied[d] \cup {c}

Located == \A c \in Callers : Shape(c) /\ Holds(c) /\ Answers(c) /\ Applied(c)

IInv ==
  /\ Typed /\ Located /\ VersionBounded /\ StartCurrent
  /\ SawTree /\ SeenUntilSwap /\ CheckedUnderLock /\ OverlayCurrent /\ TreesApplied
-----------------------------------------------------------------------------
(* Types and frames.                                                       *)

\* A caller with something to publish publishes one of its documents.
LEMMA TurnIsIn ==
  ASSUME Typed, NEW c \in Callers, todo[c] # {}
  PROVE  Turn(c) \in todo[c] /\ Turn(c) \in Documents
  <1>1. todo[c] \in SUBSET Documents
    BY DEF Typed
  <1>2. QED
    BY <1>1, LowestIsIn DEF Turn

\* The documents a command may touch.
LEMMA TouchedTyped ==
  ASSUME Typed, NEW c \in Callers, NEW d \in Documents, NEW D \in Touched(c, d)
  PROVE  D \in SUBSET Documents /\ d \in D
         /\ (kind[c] \in Commands \ {"move"} => D = {d})
  BY DEF Touched, Commands

\* The variables are typed at the start, ...
LEMMA InitTyped == Init => Typed
  <1> SUFFICES ASSUME Init PROVE Typed
    OBVIOUS
  <1>1. Lowest(Documents) \in Documents
    BY LowestIsIn, DocumentsAssumption
  <1>2. kind \in [Callers -> AllKinds]
    BY FamiliesAssumption DEF Init, AllKinds
  <1>3. QED
    BY <1>1, <1>2 DEF Init, Typed, Changes, PCs, Outcomes

\* Every step keeps the types.
LEMMA IssueTyped ==
  ASSUME Typed, NEW c \in Callers, Issue(c) PROVE Typed'
  <1>1. PICK d \in Documents : \E D \in Touched(c, d) :
          source' = [source EXCEPT ![c] = d] /\ docs' = [docs EXCEPT ![c] = D]
    BY DEF Issue
  <1> PICK D \in Touched(c, d) : docs' = [docs EXCEPT ![c] = D]
    BY <1>1
  <1>2. D \in SUBSET Documents
    BY <1>1, TouchedTyped
  <1>3. FirstStep(c) \in PCs
    BY DEF FirstStep, PCs
  <1>4. source' \in [Callers -> Documents] /\ docs' \in [Callers -> SUBSET Documents]
    BY <1>1, <1>2 DEF Typed
  <1>5. /\ checked' \in [Callers -> BOOLEAN]
        /\ saw' \in [Callers -> [Documents -> Nat]]
        /\ seen' \in [Callers -> [Documents -> Changes]]
    <2>1. \/ /\ checked' = [checked EXCEPT ![c] = TRUE]
             /\ saw' = [saw EXCEPT ![c] = version]
             /\ seen' = [seen EXCEPT ![c] = tree]
          \/ checked' = checked /\ saw' = saw /\ seen' = seen
      BY DEF Issue
    <2>2. checked' \in [Callers -> BOOLEAN]
      BY <2>1 DEF Typed
    <2>3. saw' \in [Callers -> [Documents -> Nat]]
      BY <2>1 DEF Typed
    <2>4. seen' \in [Callers -> [Documents -> Changes]]
      BY <2>1 DEF Typed
    <2>5. QED
      BY <2>2, <2>3, <2>4
  <1>6. pc' \in [Callers -> PCs]
    BY <1>3 DEF Issue, Typed
  <1>7. QED
    BY <1>4, <1>5, <1>6 DEF Issue, Typed, shared

\* ... kept so by the steps a caller takes without a lock, ...
LEMMA OutsideTyped ==
  ASSUME Typed, NEW c \in Callers, Check(c) \/ Render(c) \/ Commit(c) PROVE Typed'
  <1>1. CASE Check(c)
    BY <1>1 DEF Check, Answer, Typed, shared, command, PCs, Outcomes
  <1>2. CASE Render(c)
    BY <1>2 DEF Render, Typed, shared, command, PCs
  <1>3. CASE Commit(c)
    <2>1. \A d \in Documents : version[d] \in Nat
      BY DEF Typed
    <2> DEFINE t == Turn(c)
    <2>2. start' = [start EXCEPT ![c][t] = version[t]]
      BY <1>3 DEF Commit
    <2> HIDE DEF t
    <2>3. start' \in [Callers -> [Documents -> Nat]]
      BY <2>1, <2>2 DEF Typed
    <2>4. QED
      BY <1>3, <2>3 DEF Commit, Typed, shared, command, PCs
  <1>4. QED
    BY <1>1, <1>2, <1>3

\* Dropping a lock leaves the block, when it was the last one.
LEMMA ReleaseCases ==
  ASSUME Typed, NEW c \in Callers, Held(c) # {}, Release(c)
  PROVE  LET d == Lowest(Held(c)) IN
         /\ d \in Held(c) /\ d \in Documents
         /\ holder' = [holder EXCEPT ![d] = Nobody]
         /\ \/ Held(c) \ {d} # {} /\ pc' = [pc EXCEPT ![c] = "release"]
            \/ Held(c) = {d} /\ todo[c] = {} /\ pc' = [pc EXCEPT ![c] = "done"]
            \/ Held(c) = {d} /\ todo[c] # {} /\ pc' = [pc EXCEPT ![c] = "commit"]
  <1> DEFINE H == Held(c)
             d == Lowest(H)
  <1>1. H \in SUBSET Documents
    BY DEF Held, Typed
  <1>2. d \in H
    BY <1>1, LowestIsIn
  <1>3. IsFiniteSet(H)
    BY <1>1, DocumentsAssumption, FS_Subset
  <1> HIDE DEF H
  <1>4. Cardinality(H) \in Nat /\ Cardinality(H) # 0
    BY <1>2, <1>3, FS_CardinalityType, FS_EmptySet
  <1>5. Cardinality(H) > 1 <=> H \ {d} # {}
    <2>1. Cardinality(H \ {d}) = Cardinality(H) - 1 /\ IsFiniteSet(H \ {d})
      BY <1>2, <1>3, FS_RemoveElement
    <2>2. Cardinality(H \ {d}) = 0 <=> H \ {d} = {}
      BY <2>1, FS_EmptySet
    <2>3. QED
      BY <1>4, <2>1, <2>2
  <1>6. /\ holder' = [holder EXCEPT ![d] = Nobody]
        /\ pc' = [pc EXCEPT ![c] =
              CASE Cardinality(H) > 1              -> "release"
                [] H = {d} /\ todo[c] = {}         -> "done"
                [] H = {d} /\ todo[c] # {}         -> "commit"]
    BY DEF Release, Locks!Drop, H
  <1> HIDE DEF d
  <1>7. CASE H \ {d} # {}
    <2>1. Cardinality(H) > 1 /\ H # {d}
      BY <1>5, <1>7
    <2>2. pc' = [pc EXCEPT ![c] = "release"]
      BY <1>6, <2>1
    <2>3. QED
      BY <1>1, <1>2, <1>6, <1>7, <2>2 DEF H, d
  <1>8. CASE H = {d}
    <2>1. ~(Cardinality(H) > 1)
      BY <1>5, <1>8
    <2>2. pc' = [pc EXCEPT ![c] = IF todo[c] = {} THEN "done" ELSE "commit"]
      BY <1>6, <1>8, <2>1
    <2>3. QED
      BY <1>1, <1>2, <1>6, <1>8, <2>2 DEF H, d
  <1>9. QED
    BY <1>2, <1>7, <1>8

\* ... by taking and giving back a lock, ...
LEMMA LockTyped ==
  ASSUME Typed, NEW c \in Callers, Lock(c) \/ (Held(c) # {} /\ Release(c)) PROVE Typed'
  <1>1. CASE Lock(c)
    <2>1. holder' \in [Documents -> Callers \cup {Nobody}]
      BY <1>1 DEF Lock, Locks!Take, Typed
    <2>2. LockedStep(c) \in PCs /\ "lock" \in PCs
      BY DEF LockedStep, PCs
    <2>3. pc' \in [Callers -> PCs]
      BY <1>1, <2>2 DEF Lock, Typed
    <2>4. QED
      BY <1>1, <2>1, <2>3 DEF Lock, Typed, shared, command
  <1>2. CASE Held(c) # {} /\ Release(c)
    <2>1. /\ holder' = [holder EXCEPT ![Lowest(Held(c))] = Nobody]
          /\ \E p \in PCs : pc' = [pc EXCEPT ![c] = p]
      BY <1>2, ReleaseCases DEF PCs
    <2>2. holder' \in [Documents -> Callers \cup {Nobody}] /\ pc' \in [Callers -> PCs]
      BY <2>1 DEF Typed
    <2>3. QED
      BY <1>2, <2>2 DEF Release, Typed, shared, command
  <1>3. QED
    BY <1>1, <1>2

\* ... by the steps of a batch before its first swap, ...
LEMMA BatchTyped ==
  ASSUME Typed, NEW c \in Callers, CheckLocked(c) \/ Run(c) \/ Recheck(c)
  PROVE  Typed'
  <1>1. CASE CheckLocked(c)
    BY <1>1 DEF CheckLocked, GiveUp, Answer, Typed, shared, command, PCs, Outcomes
  <1>2. CASE Run(c)
    <2>1. [d \in Documents |-> tree[d] \cup {c}] \in [Documents -> Changes]
      BY DEF Typed, Changes
    <2>2. start' \in [Callers -> [Documents -> Nat]]
      BY <1>2 DEF Run, Typed
    <2>3. copy' \in [Callers -> [Documents -> Changes]]
      BY <1>2, <2>1 DEF Run, Typed
    <2>4. /\ pc' \in [Callers -> PCs] /\ outcome' \in [Callers -> Outcomes]
          /\ todo' \in [Callers -> SUBSET Documents]
      BY <1>2 DEF Run, GiveUp, Answer, Typed, PCs, Outcomes
    <2>5. QED
      BY <1>2, <2>2, <2>3, <2>4 DEF Run, Typed, shared, command
  <1>3. CASE Recheck(c)
    BY <1>3 DEF Recheck, GiveUp, Answer, Typed, shared, command, PCs, Outcomes
  <1>4. QED
    BY <1>1, <1>2, <1>3

\* Applying a change to a document.
LEMMA ApplyTyped ==
  ASSUME Typed, NEW c \in Callers, NEW d \in Documents, NEW content \in Changes,
         Apply(c, d, content)
  PROVE  /\ tree' \in [Documents -> Changes]
         /\ basis' \in [Callers -> [Documents -> Changes]]
         /\ applied' \in [Documents -> Changes]
  BY DEF Typed, Apply, Changes

\* ... by the swap of one document's tree, ...
LEMMA SwapTyped ==
  ASSUME Typed, NEW c \in Callers, todo[c] # {}, Swap(c) PROVE Typed'
  <1>1. Turn(c) \in Documents
    BY TurnIsIn
  <1>2. copy[c][Turn(c)] \in Changes
    BY <1>1 DEF Typed
  <1>3. Apply(c, Turn(c), copy[c][Turn(c)])
    BY DEF Swap
  <1>4. QED
    BY <1>1, <1>2, <1>3, ApplyTyped DEF Swap, Typed, command, PCs

\* ... by the update of one version, ...
LEMMA BumpTyped ==
  ASSUME Typed, NEW c \in Callers, todo[c] # {}, Bump(c) PROVE Typed'
  <1> DEFINE t == Turn(c)
  <1>1. t \in Documents
    BY TurnIsIn
  <1>2. version' = [version EXCEPT ![t] = start[c][t] + 1] /\ todo' = [todo EXCEPT ![c] = @ \ {t}]
    BY DEF Bump
  <1> HIDE DEF t
  <1>3. version' \in [Documents -> Nat] /\ todo' \in [Callers -> SUBSET Documents]
    BY <1>1, <1>2 DEF Typed
  <1>4. pc' \in [Callers -> PCs] /\ outcome' \in [Callers -> Outcomes]
    BY DEF Bump, Answer, Typed, PCs, Outcomes
  <1>5. QED
    BY <1>3, <1>4 DEF Bump, Typed, command

\* ... and by the commands that change a tree in place.
LEMMA MutateTyped ==
  ASSUME Typed, NEW c \in Callers, Operate(c) \/ Relocate(c) \/ Rebuild(c) PROVE Typed'
  <1> DEFINE d == source[c]
  <1>1. d \in Documents
    BY DEF Typed
  <1>2. CASE Operate(c)
    <2>1. tree[d] \cup {c} \in Changes
      BY <1>1 DEF Typed, Changes
    <2>2. /\ tree' \in [Documents -> Changes]
          /\ basis' \in [Callers -> [Documents -> Changes]]
          /\ applied' \in [Documents -> Changes]
      <3>1. CASE Apply(c, d, tree[d] \cup {c})
        BY <1>1, <2>1, <3>1, ApplyTyped
      <3>2. CASE UNCHANGED <<tree, applied, basis>>
        BY <3>2 DEF Typed
      <3>3. QED
        BY <1>2, <3>1, <3>2 DEF Operate
    <2>3. start' \in [Callers -> [Documents -> Nat]]
      BY <1>2 DEF Operate, Typed
    <2>4. /\ pc' \in [Callers -> PCs] /\ outcome' \in [Callers -> Outcomes]
          /\ todo' \in [Callers -> SUBSET Documents]
      BY <1>2 DEF Operate, GiveUp, Answer, Typed, PCs, Outcomes
    <2>5. QED
      BY <1>2, <2>2, <2>3, <2>4 DEF Operate, Typed, command
  <1>3. CASE Relocate(c)
    <2>1. /\ [e \in Documents |-> IF e \in docs[c] THEN tree[e] \cup {c} ELSE tree[e]]
               \in [Documents -> Changes]
          /\ [e \in Documents |-> IF e \in docs[c] THEN applied[e] \cup {c} ELSE applied[e]]
               \in [Documents -> Changes]
      BY DEF Typed, Changes
    <2>2. tree' \in [Documents -> Changes] /\ applied' \in [Documents -> Changes]
      BY <1>3, <2>1 DEF Relocate, Typed
    <2>3. basis' \in [Callers -> [Documents -> Changes]]
      BY <1>3 DEF Relocate, Typed
    <2>4. /\ pc' \in [Callers -> PCs] /\ outcome' \in [Callers -> Outcomes]
          /\ todo' \in [Callers -> SUBSET Documents]
      BY <1>3 DEF Relocate, GiveUp, Answer, Typed, PCs, Outcomes
    <2>5. QED
      BY <1>3, <2>2, <2>3, <2>4 DEF Relocate, Typed, command
  <1>4. CASE Rebuild(c)
    <2>1. copy[c][d] \cup {c} \in Changes
      BY <1>1 DEF Typed, Changes
    <2>2. QED
      BY <1>1, <1>4, <2>1, ApplyTyped DEF Rebuild, Typed, command, PCs
  <1>5. QED
    BY <1>2, <1>3, <1>4

-----------------------------------------------------------------------------
(* What a step of c leaves alone.                                          *)

\* All that is another caller's, its place in the documents included.
OthersKept(c) ==
  /\ kind' = kind
  /\ \A e \in Callers \ {c} :
       /\ pc'[e] = pc[e]           /\ docs'[e] = docs[e]   /\ source'[e] = source[e]
       /\ checked'[e] = checked[e] /\ saw'[e] = saw[e]     /\ seen'[e] = seen[e]
       /\ copy'[e] = copy[e]       /\ start'[e] = start[e] /\ todo'[e] = todo[e]
       /\ outcome'[e] = outcome[e] /\ basis'[e] = basis[e]
       /\ \A d \in Documents : /\ holder'[d] = e <=> holder[d] = e
                               /\ e \in applied'[d] <=> e \in applied[d]

\* A step that changes no tree and no lock keeps what is another caller's, ...
LEMMA QuietStepsKeepOthers ==
  ASSUME Typed, NEW c \in Callers,
         Issue(c) \/ Check(c) \/ Render(c) \/ CheckLocked(c) \/ Run(c) \/ Recheck(c) \/ Commit(c)
  PROVE  OthersKept(c)
  <1> USE DEF Typed, OthersKept
  <1>1. CASE Issue(c)
    BY <1>1 DEF Issue, shared
  <1>2. CASE Check(c) \/ Render(c)
    BY <1>2 DEF Check, Render, Answer, shared, command
  <1>3. CASE CheckLocked(c) \/ Recheck(c)
    BY <1>3 DEF CheckLocked, Recheck, GiveUp, Answer, shared, command
  <1>4. CASE Run(c)
    BY <1>4 DEF Run, GiveUp, Answer, shared, command
  <1>5. CASE Commit(c)
    BY <1>5 DEF Commit, shared, command
  <1>6. QED
    BY <1>1, <1>2, <1>3, <1>4, <1>5

\* ... so does taking a free lock or giving back one's own, ...
LEMMA LockStepsKeepOthers ==
  ASSUME Typed, NEW c \in Callers, Lock(c) \/ (Held(c) # {} /\ Release(c))
  PROVE  OthersKept(c)
  <1>0. Nobody \notin Callers
    BY CallersAssumption
  <1>1. CASE Lock(c)
    <2> DEFINE d == Lowest(docs[c] \ Held(c))
    <2>1. holder[d] = Nobody /\ holder' = [holder EXCEPT ![d] = c]
      BY <1>1 DEF Lock, Locks!Take
    <2> HIDE DEF d
    <2>2. ASSUME NEW e \in Callers \ {c}, NEW f \in Documents
          PROVE  holder'[f] = e <=> holder[f] = e
      BY <1>0, <2>1 DEF Typed
    <2>3. QED
      BY <1>1, <2>2 DEF Lock, shared, command, Typed, OthersKept
  <1>2. CASE Held(c) # {} /\ Release(c)
    <2> DEFINE d == Lowest(Held(c))
    <2>1. d \in Held(c) /\ holder' = [holder EXCEPT ![d] = Nobody]
      BY <1>2, ReleaseCases
    <2> HIDE DEF d
    <2>2. ASSUME NEW e \in Callers \ {c}, NEW f \in Documents
          PROVE  holder'[f] = e <=> holder[f] = e
      BY <1>0, <2>1 DEF Typed, Held
    <2>3. QED
      BY <1>2, <2>2 DEF Release, shared, command, Typed, OthersKept
  <1>3. QED
    BY <1>1, <1>2

\* A change goes into the documents it is for and nowhere else.
LEMMA ApplyEffect ==
  ASSUME Typed, NEW c \in Callers, NEW d \in Documents, NEW content, Apply(c, d, content)
  PROVE  /\ tree'[d] = content
         /\ basis'[c][d] = tree[d]
         /\ applied'[d] = applied[d] \cup {c}
         /\ \A f \in Documents \ {d} : /\ tree'[f] = tree[f]
                                       /\ applied'[f] = applied[f]
                                       /\ basis'[c][f] = basis[c][f]
         /\ \A e \in Callers \ {c} : basis'[e] = basis[e]
  BY DEF Apply, Typed

\* ... applying one's own change, ...
LEMMA ApplyStepsKeepOthers ==
  ASSUME Typed, NEW c \in Callers, todo[c] # {},
         Swap(c) \/ Operate(c) \/ Relocate(c) \/ Rebuild(c)
  PROVE  OthersKept(c)
  <1> DEFINE Kept == /\ \A e \in Callers \ {c} : basis'[e] = basis[e]
                     /\ \A e \in Callers \ {c}, f \in Documents :
                          e \in applied'[f] <=> e \in applied[f]
  <1>1. ASSUME NEW d \in Documents, NEW content, Apply(c, d, content)
        PROVE  Kept
    BY <1>1, ApplyEffect
  <1>2. source[c] \in Documents /\ Turn(c) \in Documents
    BY TurnIsIn DEF Typed
  <1>3. CASE Swap(c)
    <2>1. Kept
      BY <1>1, <1>2, <1>3 DEF Swap
    <2>2. QED
      BY <1>3, <2>1 DEF Swap, command, Typed, OthersKept
  <1>4. CASE Operate(c)
    <2>1. Kept
      BY <1>1, <1>2, <1>4 DEF Operate
    <2>2. QED
      BY <1>4, <2>1 DEF Operate, GiveUp, Answer, command, Typed, OthersKept
  <1>5. CASE Relocate(c)
    <2>1. \A e \in Callers \ {c} : basis'[e] = basis[e]
      BY <1>5 DEF Relocate, Typed
    <2>2. \A f \in Documents : applied'[f] \in {applied[f], applied[f] \cup {c}}
      BY <1>5 DEF Relocate
    <2>3. Kept
      BY <2>1, <2>2
    <2>4. QED
      BY <1>5, <2>3 DEF Relocate, GiveUp, Answer, command, Typed, OthersKept
  <1>6. CASE Rebuild(c)
    <2>1. Kept
      BY <1>1, <1>2, <1>6 DEF Rebuild
    <2>2. QED
      BY <1>6, <2>1 DEF Rebuild, command, Typed, OthersKept
  <1>7. QED
    BY <1>3, <1>4, <1>5, <1>6

\* ... and counting it.
LEMMA BumpKeepsOthers ==
  ASSUME Typed, NEW c \in Callers, Bump(c)
  PROVE  OthersKept(c)
  BY DEF Bump, Answer, command, Typed, OthersKept

\* What a caller holds and where its change is follow from what is kept.
LEMMA OthersStand ==
  ASSUME Typed, NEW c \in Callers, OthersKept(c), NEW e \in Callers \ {c}
  PROVE  /\ Held(e)' = Held(e) /\ Turn(e)' = Turn(e) /\ Applies(e)' = Applies(e)
  <1>1. docs[e] \subseteq Documents
    BY DEF Typed
  <1>2. QED
    BY <1>1 DEF OthersKept, Held, Turn, Applies

\* So every other caller stands where it stood.
LEMMA OthersLocated ==
  ASSUME Typed, Located, NEW c \in Callers, OthersKept(c), NEW e \in Callers \ {c}
  PROVE  Shape(e)' /\ Holds(e)' /\ Answers(e)' /\ Applied(e)'
  <1>1. Held(e)' = Held(e) /\ Turn(e)' = Turn(e) /\ Applies(e)' = Applies(e)
    BY OthersStand
  <1>2. /\ pc'[e] = pc[e] /\ docs'[e] = docs[e] /\ source'[e] = source[e] /\ kind'[e] = kind[e]
        /\ todo'[e] = todo[e] /\ outcome'[e] = outcome[e]
    BY DEF OthersKept
  <1>3. Shape(e) /\ Holds(e) /\ Answers(e) /\ Applied(e)
    BY DEF Located
  <1>4. Shape(e)'
    BY <1>2, <1>3 DEF Shape
  <1>5. Holds(e)'
    BY <1>1, <1>2, <1>3 DEF Holds, OthersKept
  <1>6. Answers(e)'
    BY <1>2, <1>3 DEF Answers
  <1>7. Applied(e)'
    BY <1>1, <1>2, <1>3 DEF Applied
  <1>8. QED
    BY <1>4, <1>5, <1>6, <1>7

-----------------------------------------------------------------------------
(* Where a step leaves its own caller.                                     *)

\* At the start every caller is idle, holds nothing and has changed nothing.
LEMMA InitLocated == Init => Located
  <1> SUFFICES ASSUME Init, NEW c \in Callers
               PROVE  Shape(c) /\ Holds(c) /\ Answers(c) /\ Applied(c)
    BY DEF Located
  <1>1. pc[c] = "idle" /\ docs[c] = {} /\ todo[c] = {} /\ outcome[c] = "pending"
    BY DEF Init
  <1>2. \A d \in Documents : holder[d] # c /\ applied[d] = {}
    BY CallersAssumption DEF Init
  <1>3. Held(c) = {} /\ Applies(c) = {}
    BY <1>1, <1>2 DEF Held, Applies
  <1>4. QED
    BY <1>1, <1>2, <1>3 DEF Shape, Holds, Answers, Applied, Unlocked, Inside, Early, BatchPCs

\* The parts of Located for one caller, unfolded by its pc.
LEMMA At ==
  ASSUME Typed, Located, NEW c \in Callers
  PROVE  /\ Shape(c) /\ Holds(c) /\ Answers(c) /\ Applied(c)
         /\ pc[c] \in Early => Applies(c) = {} /\ outcome[c] = "pending"
         /\ pc[c] = "swap" => Applies(c) = docs[c] \ todo[c] /\ outcome[c] = "pending"
         /\ pc[c] \in {"bump", "commit"} => outcome[c] = "pending"
         /\ kind[c] = "move" /\ pc[c] \in {"bump", "commit"} => Applies(c) = docs[c]
         /\ kind[c] # "move" /\ pc[c] = "bump" => Applies(c) = (docs[c] \ todo[c]) \cup {Turn(c)}
         /\ docs[c] \subseteq Documents /\ todo[c] \subseteq docs[c]
         /\ pc[c] \in PCs /\ kind[c] \in AllKinds
  <1>1. Shape(c) /\ Holds(c) /\ Answers(c) /\ Applied(c)
    BY DEF Located
  <1>2. /\ docs[c] \subseteq Documents /\ todo[c] \subseteq docs[c]
        /\ pc[c] \in PCs /\ kind[c] \in AllKinds
    BY <1>1 DEF Typed, Shape
  <1>3. pc[c] \notin {"release", "done"} => outcome[c] = "pending"
    BY <1>1 DEF Answers
  <1>4. pc[c] \in Early => Applies(c) = {} /\ outcome[c] = "pending"
    BY <1>1, <1>3 DEF Applied, Early
  <1>5. pc[c] = "swap" => Applies(c) = docs[c] \ todo[c] /\ outcome[c] = "pending"
    BY <1>1, <1>3 DEF Applied, Early, Shape, BatchPCs
  <1>6. pc[c] \in {"bump", "commit"} => outcome[c] = "pending"
    BY <1>3
  <1>7. kind[c] = "move" /\ pc[c] \in {"bump", "commit"} => Applies(c) = docs[c]
    BY <1>1, <1>6 DEF Applied, Early
  <1>8. kind[c] # "move" /\ pc[c] = "bump" => Applies(c) = (docs[c] \ todo[c]) \cup {Turn(c)}
    BY <1>1, <1>6 DEF Applied, Early
  <1>9. QED
    BY <1>1, <1>2, <1>4, <1>5, <1>6, <1>7, <1>8

\* Where c itself stands.
Mine(c) == Shape(c) /\ Holds(c) /\ Answers(c) /\ Applied(c)

\* A caller that issues a command has everything still to do.
LEMMA IssueLocates ==
  ASSUME Typed, Located, NEW c \in Callers, Issue(c)
  PROVE  Mine(c)'
  <1> USE DEF Typed
  <1>1. PICK d \in Documents : /\ source' = [source EXCEPT ![c] = d]
                               /\ \E D \in Touched(c, d) : docs' = [docs EXCEPT ![c] = D]
    BY DEF Issue
  <1> PICK D \in Touched(c, d) : docs' = [docs EXCEPT ![c] = D]
    BY <1>1
  <1>2. /\ D \in SUBSET Documents /\ d \in D
        /\ kind[c] \in Commands \ {"move"} => D = {d}
    BY TouchedTyped
  <1>3. pc[c] = "idle" /\ Applies(c) = {} /\ outcome[c] = "pending" /\ Held(c) = {} /\ todo[c] = {}
        /\ \A f \in Documents : holder[f] # c
    BY At DEF Issue, Holds, Shape, Unlocked, Held, Early
  <1>4. /\ docs'[c] = D /\ source'[c] = d /\ kind' = kind /\ todo' = todo /\ outcome' = outcome
        /\ holder' = holder /\ applied' = applied
        /\ pc'[c] = FirstStep(c)
    BY <1>1 DEF Issue, shared
  <1>5. Held(c)' = {} /\ Applies(c)' = {}
    BY <1>2, <1>3, <1>4 DEF Held, Applies
  <1>6. FirstStep(c) \in {"lock", "render", "check"}
        /\ (kind[c] = "batch" => FirstStep(c) = "lock")
        /\ (FirstStep(c) = "lock" => kind[c] = "batch")
    BY DEF FirstStep
  <1>7. kind[c] \in AllKinds
    OBVIOUS
  <1>8. Shape(c)'
    BY <1>2, <1>3, <1>4, <1>6, <1>7 DEF Shape, AllKinds, Batches, Commands, BatchPCs
  <1>9. Holds(c)'
    BY <1>2, <1>3, <1>4, <1>5, <1>6 DEF Holds, Unlocked, Inside
  <1>10. Answers(c)' /\ Applied(c)'
    BY <1>3, <1>4, <1>5, <1>6 DEF Answers, Applied, Early
  <1>11. QED
    BY <1>8, <1>9, <1>10 DEF Mine

\* A step that takes no lock and applies nothing keeps what c holds and where
\* its change is.
LEMMA QuietHeld ==
  ASSUME Typed, NEW c \in Callers, UNCHANGED <<shared, holder, command>>
  PROVE  /\ Held(c)' = Held(c) /\ Applies(c)' = Applies(c)
         /\ kind' = kind /\ docs' = docs /\ source' = source /\ holder' = holder
  BY DEF Held, Applies, shared, command

\* A caller outside the locks holds none and has applied nothing, a move after its change excepted.
LEMMA OutsideLocates ==
  ASSUME Typed, Located, NEW c \in Callers, Check(c) \/ Render(c) \/ Commit(c)
  PROVE  Mine(c)'
  <1>0. /\ Held(c)' = Held(c) /\ Applies(c)' = Applies(c)
        /\ kind' = kind /\ docs' = docs /\ source' = source /\ holder' = holder
    BY QuietHeld DEF Check, Render, Commit
  <1>1. Mine(c)
    BY DEF Located, Mine
  <1>2. CASE Check(c)
    <2>1. /\ pc[c] = "check" /\ todo' = todo
          /\ \/ pc'[c] = "done" /\ outcome'[c] = "conflict"
             \/ pc'[c] = "lock" /\ outcome' = outcome
      BY <1>2 DEF Check, Answer, Typed
    <2>2. /\ todo[c] = {} \/ todo[c] # {}
          /\ Applies(c) = {} /\ outcome[c] = "pending" /\ Held(c) = {}
      BY <2>1, At DEF Early, Holds, Unlocked
    <2>3. todo[c] = {} /\ docs[c] # {}
      BY <1>1, <2>1 DEF Mine, Shape
    <2>4. Shape(c)'
      BY <1>0, <1>1, <2>1, <2>3 DEF Mine, Shape, BatchPCs
    <2>5. Holds(c)'
      BY <1>0, <1>1, <2>1, <2>2, <2>3 DEF Mine, Holds, Unlocked, Inside
    <2>6. Answers(c)' /\ Applied(c)'
      BY <1>0, <2>1, <2>2 DEF Answers, Applied, Early
    <2>7. QED
      BY <2>4, <2>5, <2>6 DEF Mine
  <1>3. CASE Render(c)
    <2>1. /\ pc[c] = "render" /\ todo' = todo /\ pc'[c] = "lock" /\ outcome' = outcome
      BY <1>3 DEF Render, Typed
    <2>2. Applies(c) = {} /\ outcome[c] = "pending" /\ Held(c) = {} /\ docs[c] # {}
      BY <1>1, <2>1, At DEF Early, Holds, Unlocked, Mine, Shape
    <2>3. Shape(c)'
      BY <1>0, <1>1, <2>1 DEF Mine, Shape, BatchPCs
    <2>4. Holds(c)'
      BY <1>0, <1>1, <2>1, <2>2 DEF Mine, Holds, Unlocked, Inside
    <2>5. Answers(c)' /\ Applied(c)'
      BY <1>0, <2>1, <2>2 DEF Answers, Applied, Early
    <2>6. QED
      BY <2>3, <2>4, <2>5 DEF Mine
  <1>4. CASE Commit(c)
    <2>1. /\ pc[c] = "commit" /\ todo' = todo /\ pc'[c] = "bump" /\ outcome' = outcome
      BY <1>4 DEF Commit, Typed
    <2>2. /\ Applies(c) = docs[c] /\ outcome[c] = "pending" /\ Held(c) = {}
          /\ todo[c] # {} /\ kind[c] = "move"
      BY <1>1, <2>1, At DEF Holds, Unlocked, Mine, Shape
    <2>3. Shape(c)'
      BY <1>0, <1>1, <2>1, <2>2 DEF Mine, Shape, BatchPCs
    <2>4. Holds(c)'
      BY <1>0, <1>1, <2>1, <2>2 DEF Mine, Holds, Unlocked, Inside
    <2>5. Answers(c)' /\ Applied(c)'
      BY <1>0, <2>1, <2>2 DEF Answers, Applied, Early
    <2>6. QED
      BY <2>3, <2>4, <2>5 DEF Mine
  <1>5. QED
    BY <1>2, <1>3, <1>4

\* A caller takes its locks one by one and goes on with all of them.
LEMMA LockLocates ==
  ASSUME Typed, Located, NEW c \in Callers, Lock(c)
  PROVE  Mine(c)'
  <1> DEFINE d == Lowest(docs[c] \ Held(c))
  <1>1. Mine(c) /\ pc[c] = "lock" /\ Held(c) # docs[c] /\ Held(c) \subseteq docs[c]
    BY DEF Located, Mine, Lock, Holds, Held
  <1>2. docs[c] \ Held(c) \in SUBSET Documents /\ docs[c] \ Held(c) # {}
    BY <1>1 DEF Typed
  <1>3. d \in docs[c] /\ d \notin Held(c) /\ d \in Documents
    BY <1>2, LowestIsIn
  <1>4. /\ holder[d] = Nobody /\ holder' = [holder EXCEPT ![d] = c]
        /\ pc'[c] = IF docs[c] = Held(c) \cup {d} THEN LockedStep(c) ELSE "lock"
        /\ todo'[c] = docs[c]
        /\ kind' = kind /\ docs' = docs /\ source' = source /\ outcome' = outcome
        /\ applied' = applied
    BY DEF Lock, Locks!Take, Typed, shared, command
  <1> HIDE DEF d
  <1>5. Held(c)' = Held(c) \cup {d}
    BY <1>3, <1>4 DEF Held, Typed
  <1>6. Applies(c) = {} /\ outcome[c] = "pending" /\ Applies(c)' = {}
    BY <1>1, <1>4, At DEF Early, Applies
  <1>7. \/ LockedStep(c) = "check_locked" /\ kind[c] = "batch"
        \/ LockedStep(c) = "mutate" /\ kind[c] \in Commands
    BY DEF LockedStep, Typed, AllKinds, Batches
  <1>8. Shape(c)'
    BY <1>1, <1>4, <1>7 DEF Mine, Shape, BatchPCs
  <1>9. Holds(c)'
    <2>1. \A f \in Documents : holder'[f] = c => f \in docs'[c]
      BY <1>1, <1>3, <1>4 DEF Mine, Holds, Typed
    <2>2. QED
      BY <1>4, <1>5, <1>7, <2>1 DEF Holds, Unlocked, Inside
  <1>10. Answers(c)' /\ Applied(c)'
    BY <1>4, <1>6, <1>7 DEF Answers, Applied, Early
  <1>11. QED
    BY <1>8, <1>9, <1>10 DEF Mine

\* A caller gives its locks back one by one, its answer already given, or goes on to count.
LEMMA ReleaseLocates ==
  ASSUME Typed, Located, NEW c \in Callers, Release(c)
  PROVE  Mine(c)'
  <1> DEFINE d == Lowest(Held(c))
  <1>1. Mine(c) /\ pc[c] = "release" /\ Held(c) # {}
    BY DEF Located, Mine, Release, Holds
  <1>2. /\ d \in Held(c) /\ d \in Documents
        /\ holder' = [holder EXCEPT ![d] = Nobody]
        /\ \/ Held(c) \ {d} # {} /\ pc'[c] = "release"
           \/ Held(c) = {d} /\ todo[c] = {} /\ pc'[c] = "done"
           \/ Held(c) = {d} /\ todo[c] # {} /\ pc'[c] = "commit"
    BY <1>1, ReleaseCases DEF Typed
  <1>3. /\ kind' = kind /\ docs' = docs /\ source' = source /\ outcome' = outcome
        /\ todo' = todo /\ applied' = applied
    BY DEF Release, shared, command
  <1> HIDE DEF d
  <1>4. Held(c)' = Held(c) \ {d}
    BY <1>2, <1>3, CallersAssumption DEF Held, Typed
  <1>5. Applies(c)' = Applies(c)
    BY <1>3 DEF Applies
  <1>6. /\ todo[c] # {} => kind[c] = "move" /\ outcome[c] = "pending"
        /\ todo[c] = {} => outcome[c] \in {"ok", "conflict", "failed"}
    BY <1>1 DEF Mine, Shape, Answers, Typed, Outcomes
  <1>7. Shape(c)'
    BY <1>1, <1>2, <1>3, <1>6 DEF Mine, Shape, BatchPCs, Commands
  <1>8. Holds(c)'
    <2>1. \A f \in Documents : holder'[f] = c => f \in docs'[c]
      BY <1>1, <1>2, <1>3, CallersAssumption DEF Mine, Holds, Typed
    <2>2. QED
      BY <1>2, <1>4, <2>1 DEF Holds, Unlocked, Inside
  <1>9. Answers(c)'
    BY <1>2, <1>3, <1>6 DEF Answers
  <1>10. Applied(c)'
    BY <1>1, <1>2, <1>3, <1>5, <1>6 DEF Mine, Applied, Early
  <1>11. QED
    BY <1>7, <1>8, <1>9, <1>10 DEF Mine

\* A command that gives up drops what it planned, keeps its locks and answers.
LEMMA GiveUpLocates ==
  ASSUME Typed, Located, NEW c \in Callers, NEW result \in {"conflict", "failed"},
         pc[c] \in {"check_locked", "run", "recheck", "mutate"}, GiveUp(c, result),
         Held(c)' = Held(c), Applies(c)' = Applies(c), holder' = holder,
         UNCHANGED command
  PROVE  Mine(c)'
  <1>1. /\ pc'[c] = "release" /\ todo'[c] = {} /\ outcome'[c] = result
        /\ kind' = kind /\ docs' = docs /\ source' = source
    BY DEF GiveUp, Answer, Typed, command
  <1>2. Mine(c) /\ Applies(c) = {} /\ Held(c) = docs[c] /\ source[c] \in docs[c]
    BY At DEF Located, Mine, Early, Holds, Inside, Shape
  <1>3. Shape(c)'
    BY <1>1, <1>2 DEF Mine, Shape, BatchPCs
  <1>4. Holds(c)'
    BY <1>1, <1>2 DEF Mine, Holds, Unlocked, Inside
  <1>5. Answers(c)' /\ Applied(c)'
    BY <1>1, <1>2 DEF Answers, Applied, Early
  <1>6. QED
    BY <1>3, <1>4, <1>5 DEF Mine

\* A batch under its locks goes on, or gives up having applied nothing.
LEMMA BatchLocates ==
  ASSUME Typed, Located, NEW c \in Callers, CheckLocked(c) \/ Run(c) \/ Recheck(c)
  PROVE  Mine(c)'
  <1>1. /\ Held(c)' = Held(c) /\ Applies(c)' = Applies(c)
        /\ kind' = kind /\ docs' = docs /\ source' = source /\ holder' = holder
        /\ UNCHANGED command
    BY QuietHeld DEF CheckLocked, Run, Recheck
  <1>2. pc[c] \in {"check_locked", "run", "recheck"}
    BY DEF CheckLocked, Run, Recheck
  <1>3. \/ GiveUp(c, "conflict") \/ GiveUp(c, "failed")
        \/ /\ UNCHANGED <<outcome, todo>>
           /\ pc'[c] = CASE pc[c] = "check_locked" -> "run"
                         [] pc[c] = "run"          -> "recheck"
                         [] pc[c] = "recheck"      -> "swap"
    BY DEF CheckLocked, Run, Recheck, Typed
  <1>4. CASE GiveUp(c, "conflict") \/ GiveUp(c, "failed")
    BY <1>1, <1>2, <1>4, GiveUpLocates
  <1>5. CASE /\ UNCHANGED <<outcome, todo>>
             /\ pc'[c] = CASE pc[c] = "check_locked" -> "run"
                           [] pc[c] = "run"          -> "recheck"
                           [] pc[c] = "recheck"      -> "swap"
    <2>1. /\ Mine(c) /\ Applies(c) = {} /\ Held(c) = docs[c] /\ source[c] \in docs[c]
          /\ todo[c] = docs[c] /\ outcome[c] = "pending" /\ kind[c] = "batch"
      BY <1>2, At DEF Located, Mine, Early, Holds, Inside, Shape, BatchPCs
    <2>2. pc'[c] \in {"run", "recheck", "swap"}
      BY <1>2, <1>5
    <2>3. Shape(c)'
      BY <1>1, <1>5, <2>1, <2>2 DEF Mine, Shape, BatchPCs, Commands
    <2>4. Holds(c)'
      BY <1>1, <2>1, <2>2 DEF Mine, Holds, Unlocked, Inside
    <2>5. Answers(c)'
      BY <1>5, <2>1, <2>2 DEF Answers
    <2>6. Applied(c)'
      BY <1>1, <1>5, <2>1, <2>2 DEF Applied, Early
    <2>7. QED
      BY <2>3, <2>4, <2>5, <2>6 DEF Mine
  <1>6. QED
    BY <1>3, <1>4, <1>5

\* A swap takes the change into one document and leaves that one to be counted.
LEMMA SwapLocates ==
  ASSUME Typed, Located, NEW c \in Callers, Swap(c)
  PROVE  Mine(c)'
  <1> DEFINE t == Turn(c)
  <1>1. /\ Mine(c) /\ pc[c] = "swap" /\ todo[c] # {} /\ kind[c] = "batch"
        /\ outcome[c] = "pending" /\ Applies(c) = docs[c] \ todo[c] /\ Held(c) = docs[c]
    BY At DEF Swap, Located, Mine, Shape, Holds, Inside, BatchPCs
  <1>2. t \in todo[c] /\ t \in Documents /\ t \in docs[c]
    BY <1>1, TurnIsIn, At
  <1>3. /\ pc'[c] = "bump" /\ todo' = todo /\ outcome' = outcome /\ holder' = holder
        /\ kind' = kind /\ docs' = docs /\ source' = source
    BY DEF Swap, Typed, command
  <1>4. applied'[t] = applied[t] \cup {c} /\ \A f \in Documents \ {t} : applied'[f] = applied[f]
    BY <1>2, ApplyEffect DEF Swap
  <1>5. Held(c)' = Held(c) /\ Turn(c)' = t
    BY <1>3 DEF Held, Turn
  <1> HIDE DEF t
  <1>6. Applies(c)' = Applies(c) \cup {t}
    BY <1>2, <1>4 DEF Applies
  <1>7. Shape(c)'
    BY <1>1, <1>3 DEF Mine, Shape, BatchPCs
  <1>8. Holds(c)'
    BY <1>1, <1>3, <1>5 DEF Mine, Holds, Unlocked, Inside
  <1>9. Answers(c)' /\ Applied(c)'
    BY <1>1, <1>3, <1>5, <1>6 DEF Answers, Applied, Early
  <1>10. QED
    BY <1>7, <1>8, <1>9 DEF Mine

\* The update of a version finishes one document; the last one answers.
LEMMA BumpLocates ==
  ASSUME Typed, Located, NEW c \in Callers, Bump(c)
  PROVE  Mine(c)'
  <1> DEFINE t == Turn(c)
  <1>1. Mine(c) /\ pc[c] = "bump" /\ todo[c] # {} /\ outcome[c] = "pending"
        /\ todo[c] \subseteq docs[c] /\ source[c] \in docs[c]
    BY At DEF Bump, Located, Mine, Shape
  <1>2. t \in todo[c] /\ t \in docs[c]
    BY <1>1, TurnIsIn
  <1>3. /\ todo'[c] = todo[c] \ {t} /\ holder' = holder /\ applied' = applied
        /\ kind' = kind /\ docs' = docs /\ source' = source
    BY DEF Bump, Typed, command
  <1>4. \/ /\ todo'[c] # {} /\ outcome' = outcome
           /\ pc'[c] = IF kind[c] = "batch" THEN "swap" ELSE "commit"
        \/ /\ todo'[c] = {} /\ outcome'[c] = "ok"
           /\ pc'[c] = IF kind[c] = "move" THEN "done" ELSE "release"
    BY DEF Bump, Answer, Typed
  <1> HIDE DEF t
  <1>5. Held(c)' = Held(c) /\ Applies(c)' = Applies(c)
    BY <1>3 DEF Held, Applies
  <1>6. /\ kind[c] = "move" => Applies(c) = docs[c] /\ Held(c) = {}
        /\ kind[c] # "move" => Applies(c) = docs[c] \ todo'[c] /\ Held(c) = docs[c]
    BY <1>1, <1>2, <1>3, At DEF Mine, Holds, t
  <1>7. kind[c] \in AllKinds
    BY DEF Typed
  <1>8. todo'[c] # {} => kind[c] \in {"batch", "move"}
    BY <1>1, <1>2, <1>3, <1>7 DEF Mine, Shape, AllKinds, Batches, Commands
  <1>9. Shape(c)'
    BY <1>1, <1>3, <1>4, <1>8 DEF Mine, Shape, BatchPCs, Commands
  <1>10. Holds(c)'
    BY <1>1, <1>3, <1>4, <1>5, <1>6, <1>8 DEF Mine, Holds, Unlocked, Inside
  <1>11. Answers(c)'
    BY <1>1, <1>4 DEF Answers
  <1>12. Applied(c)'
    BY <1>1, <1>3, <1>4, <1>5, <1>6, <1>8 DEF Applied, Early
  <1>13. QED
    BY <1>9, <1>10, <1>11, <1>12 DEF Mine

\* A command in place applies its change to all its documents, or to none.
LEMMA MutateLocates ==
  ASSUME Typed, Located, NEW c \in Callers, Operate(c) \/ Relocate(c) \/ Rebuild(c)
  PROVE  Mine(c)'
  <1> DEFINE d == source[c]
  <1>1. /\ Mine(c) /\ pc[c] = "mutate" /\ outcome[c] = "pending" /\ todo[c] = docs[c]
        /\ Applies(c) = {} /\ Held(c) = docs[c] /\ d \in docs[c] /\ docs[c] \subseteq Documents
        /\ kind[c] \in Commands /\ d \in Documents
    BY At DEF Operate, Relocate, Rebuild, Located, Mine, Shape, Holds, Inside, Early
  <1>2. holder' = holder /\ UNCHANGED command /\ Held(c)' = Held(c)
    BY DEF Operate, Relocate, Rebuild, Held, command
  <1>3. /\ kind' = kind /\ docs' = docs /\ source' = source
        /\ Turn(c)' = IF kind[c] = "move" /\ source[c] \in todo'[c] THEN source[c] ELSE Lowest(todo'[c])
    BY <1>2 DEF command, Turn
  <1>4. ASSUME NEW content, Apply(c, d, content), kind[c] # "move", todo' = todo, outcome' = outcome,
               pc' = [pc EXCEPT ![c] = "bump"]
        PROVE  Mine(c)'
    <2>1. docs[c] = {d} /\ pc'[c] = "bump"
      BY <1>1, <1>4 DEF Mine, Shape, Typed
    <2>2. Lowest({d}) \in {d}
      BY <1>1, LowestIsIn
    <2>3. Turn(c)' = d
      BY <1>1, <1>3, <1>4, <2>1, <2>2
    <2>4. applied'[d] = applied[d] \cup {c} /\ \A f \in Documents \ {d} : applied'[f] = applied[f]
      BY <1>1, <1>4, ApplyEffect
    <2> HIDE DEF d
    <2>5. Applies(c)' = {d}
      BY <1>1, <2>4 DEF Applies
    <2>6. Shape(c)'
      BY <1>1, <1>3, <1>4, <2>1 DEF Mine, Shape, BatchPCs, d
    <2>7. Holds(c)'
      BY <1>1, <1>2, <1>3, <1>4, <2>1 DEF Mine, Holds, Unlocked, Inside
    <2>8. Answers(c)'
      BY <1>1, <1>4, <2>1 DEF Answers
    <2>9. Applied(c)'
      BY <1>1, <1>3, <1>4, <2>1, <2>3, <2>5 DEF Applied, Early
    <2>10. QED
      BY <2>6, <2>7, <2>8, <2>9 DEF Mine
  <1>5. ASSUME NEW result \in {"conflict", "failed"}, GiveUp(c, result), UNCHANGED <<tree, applied, basis>>
        PROVE  Mine(c)'
    <2>1. Applies(c)' = Applies(c)
      BY <1>5 DEF Applies
    <2>2. QED
      BY <1>1, <1>2, <1>5, <2>1, GiveUpLocates
  <1>6. CASE Operate(c)
    BY <1>4, <1>5, <1>6 DEF Operate
  <1>7. CASE Relocate(c)
    <2>1. CASE GiveUp(c, "failed") /\ UNCHANGED <<tree, applied, basis>>
      BY <1>5, <2>1
    <2>2. CASE /\ applied' = [f \in Documents |-> IF f \in docs[c] THEN applied[f] \cup {c} ELSE applied[f]]
               /\ pc' = [pc EXCEPT ![c] = "release"] /\ UNCHANGED <<outcome, todo>>
      <3>1. Applies(c)' = docs[c]
        BY <1>1, <2>2 DEF Applies
      <3>2. pc'[c] = "release" /\ kind[c] = "move"
        BY <1>7, <2>2 DEF Relocate, Typed
      <3>3. Shape(c)'
        BY <1>1, <1>3, <2>2, <3>2 DEF Mine, Shape, BatchPCs, Commands
      <3>4. Holds(c)'
        BY <1>1, <1>2, <1>3, <3>2 DEF Mine, Holds, Unlocked, Inside
      <3>5. Answers(c)' /\ Applied(c)'
        BY <1>1, <1>3, <2>2, <3>1, <3>2 DEF Answers, Applied, Early
      <3>6. QED
        BY <3>3, <3>4, <3>5 DEF Mine
    <2>3. QED
      BY <1>7, <2>1, <2>2 DEF Relocate
  <1>8. CASE Rebuild(c)
    BY <1>4, <1>8 DEF Rebuild
  <1>9. QED
    BY <1>6, <1>7, <1>8

-----------------------------------------------------------------------------
(* What a step does to the documents.                                      *)

\* The steps that only look and lock, and the ones that put a change in place.
Quiet(c) == \/ Issue(c) \/ Check(c) \/ Render(c) \/ Lock(c) \/ Release(c)
            \/ CheckLocked(c) \/ Run(c) \/ Recheck(c) \/ Commit(c)
Applying(c) == Swap(c) \/ Operate(c) \/ Relocate(c) \/ Rebuild(c)

\* Where every caller stands is kept by a step of any of them.
LEMMA StepLocates ==
  ASSUME Typed, Located, NEW c \in Callers, Step(c)
  PROVE  Typed' /\ OthersKept(c) /\ Located'
  <1>1. Shape(c) /\ Holds(c)
    BY DEF Located
  <1>2. Typed' /\ OthersKept(c) /\ Mine(c)'
    <2>1. CASE Issue(c)
      BY <2>1, IssueTyped, QuietStepsKeepOthers, IssueLocates
    <2>2. CASE Check(c) \/ Render(c) \/ Commit(c)
      BY <2>2, OutsideTyped, QuietStepsKeepOthers, OutsideLocates
    <2>3. CASE Lock(c)
      BY <2>3, LockTyped, LockStepsKeepOthers, LockLocates
    <2>4. CASE Release(c)
      <3>1. Held(c) # {}
        BY <1>1, <2>4 DEF Release, Holds
      <3>2. QED
        BY <2>4, <3>1, LockTyped, LockStepsKeepOthers, ReleaseLocates
    <2>5. CASE CheckLocked(c) \/ Run(c) \/ Recheck(c)
      BY <2>5, BatchTyped, QuietStepsKeepOthers, BatchLocates
    <2>6. CASE Swap(c)
      <3>1. todo[c] # {}
        BY <1>1, <2>6 DEF Swap, Shape
      <3>2. QED
        BY <2>6, <3>1, SwapTyped, ApplyStepsKeepOthers, SwapLocates
    <2>7. CASE Bump(c)
      <3>1. todo[c] # {}
        BY <1>1, <2>7 DEF Bump, Shape
      <3>2. QED
        BY <2>7, <3>1, BumpTyped, BumpKeepsOthers, BumpLocates
    <2>8. CASE Operate(c) \/ Relocate(c) \/ Rebuild(c)
      <3>1. todo[c] # {}
        BY <1>1, <2>8 DEF Operate, Relocate, Rebuild, Shape
      <3>2. QED
        BY <2>8, <3>1, MutateTyped, ApplyStepsKeepOthers, MutateLocates
    <2>9. QED
      BY <2>1, <2>2, <2>3, <2>4, <2>5, <2>6, <2>7, <2>8 DEF Step
  <1>3. \A e \in Callers \ {c} : Shape(e)' /\ Holds(e)' /\ Answers(e)' /\ Applied(e)'
    BY <1>2, OthersLocated
  <1>4. QED
    BY <1>2, <1>3 DEF Mine, Located

\* A quiet step touches no document, and plans or drops only what it has not
\* applied.
LEMMA QuietEffect ==
  ASSUME Typed, Located, NEW c \in Callers, Quiet(c)
  PROVE  /\ tree' = tree /\ version' = version /\ applied' = applied
         /\ todo'[c] = todo[c] \/ Applies(c) = {}
  <1>1. pc[c] \in Early => Applies(c) = {}
    BY At
  <1>2. tree' = tree /\ version' = version /\ applied' = applied
    BY DEF Quiet, Issue, Check, Render, Lock, Release, CheckLocked, Run, Recheck, Commit, shared
  <1>3. pc[c] \in Early \/ todo' = todo
    BY DEF Quiet, Issue, Check, Render, Lock, Release, CheckLocked, Run, Recheck, Commit, Early
  <1>4. QED
    BY <1>1, <1>2, <1>3

\* A change goes into documents its caller has locked and has yet to count.
LEMMA ApplyingEffect ==
  ASSUME Typed, Located, NEW c \in Callers, Applying(c)
  PROVE  /\ version' = version
         /\ todo'[c] = todo[c] \/ (Applies(c) = {} /\ applied' = applied)
         /\ \A d \in Documents :
              \/ tree'[d] = tree[d] /\ applied'[d] = applied[d]
              \/ /\ holder[d] = c /\ c \notin applied[d] /\ d \in todo[c] /\ todo'[c] = todo[c]
                 /\ applied'[d] = applied[d] \cup {c}
                 /\ TreesApplied => tree'[d] \subseteq applied'[d]
                 /\ TreesApplied /\ kind[c] # "reparse" /\ pc[c] = "mutate" => tree[d] \subseteq tree'[d]
  <1> DEFINE Effect(d) ==
              \/ tree'[d] = tree[d] /\ applied'[d] = applied[d]
              \/ /\ holder[d] = c /\ c \notin applied[d] /\ d \in todo[c] /\ todo'[c] = todo[c]
                 /\ applied'[d] = applied[d] \cup {c}
                 /\ TreesApplied => tree'[d] \subseteq applied'[d]
                 /\ TreesApplied /\ kind[c] # "reparse" /\ pc[c] = "mutate" => tree[d] \subseteq tree'[d]
             Safe(d) == holder[d] = c /\ c \notin applied[d] /\ d \in todo[c]
             s == source[c]
             t == Turn(c)
  <1>1. version' = version
    BY DEF Applying, Swap, Operate, Relocate, Rebuild
  <1>2. s \in Documents
    BY DEF Typed
  <1>3. ASSUME NEW d \in Documents, Safe(d), NEW content, Apply(c, d, content), todo' = todo,
               TreesApplied => content \subseteq applied[d] \cup {c},
               kind[c] # "reparse" /\ pc[c] = "mutate" => tree[d] \subseteq content
        PROVE  \A e \in Documents : Effect(e)
    BY <1>3, ApplyEffect
  <1>4. CASE pc[c] = "mutate"
    <2>1. /\ Applies(c) = {} /\ Held(c) = docs[c] /\ todo[c] = docs[c] /\ s \in docs[c]
          /\ docs[c] \subseteq Documents
      BY <1>4, At DEF Holds, Shape, Early, Inside
    <2>2. \A d \in docs[c] : Safe(d)
      BY <2>1 DEF Held, Applies
    <2>3. CASE Operate(c)
      <3>1. TreesApplied => tree[s] \cup {c} \subseteq applied[s] \cup {c}
        BY <1>2 DEF TreesApplied
      <3>2. CASE Apply(c, s, tree[s] \cup {c}) /\ todo' = todo
        <4>1. \A e \in Documents : Effect(e)
          BY <1>2, <1>3, <2>1, <2>2, <3>1, <3>2
        <4>2. QED
          BY <1>1, <3>2, <4>1
      <3>3. CASE UNCHANGED <<tree, applied>>
        BY <1>1, <2>1, <3>3
      <3>4. QED
        BY <2>3, <3>2, <3>3 DEF Operate
    <2>4. CASE Relocate(c)
      <3>1. CASE UNCHANGED <<tree, applied>>
        BY <1>1, <2>1, <3>1
      <3>2. CASE /\ tree' = [d \in Documents |-> IF d \in docs[c] THEN tree[d] \cup {c} ELSE tree[d]]
                 /\ applied' = [d \in Documents |-> IF d \in docs[c] THEN applied[d] \cup {c} ELSE applied[d]]
                 /\ todo' = todo
        <4>1. ASSUME NEW d \in Documents PROVE Effect(d)
          <5>1. CASE d \in docs[c]
            <6>1. Safe(d) /\ tree'[d] = tree[d] \cup {c} /\ applied'[d] = applied[d] \cup {c}
              BY <2>2, <3>2, <5>1
            <6>2. TreesApplied => tree[d] \subseteq applied[d]
              BY DEF TreesApplied
            <6>3. QED
              BY <3>2, <6>1, <6>2
          <5>2. CASE d \notin docs[c]
            BY <3>2, <5>2
          <5>3. QED
            BY <5>1, <5>2
        <4>2. QED
          BY <1>1, <3>2, <4>1
      <3>3. QED
        BY <2>4, <3>1, <3>2 DEF Relocate
    <2>5. CASE Rebuild(c)
      <3>1. TreesApplied => copy[c][s] \cup {c} \subseteq applied[s] \cup {c}
        BY <1>2 DEF TreesApplied
      <3>2. Apply(c, s, copy[c][s] \cup {c}) /\ todo' = todo /\ kind[c] = "reparse"
        BY <2>5 DEF Rebuild
      <3>3. \A e \in Documents : Effect(e)
        BY <1>2, <1>3, <2>1, <2>2, <3>1, <3>2
      <3>4. QED
        BY <1>1, <3>2, <3>3
    <2>6. QED
      BY <1>4, <2>3, <2>4, <2>5 DEF Applying, Swap
  <1>5. CASE Swap(c)
    <2>1. /\ pc[c] = "swap" /\ todo[c] # {} /\ Applies(c) = docs[c] \ todo[c] /\ Held(c) = docs[c]
          /\ todo[c] \subseteq docs[c]
      BY <1>5, At DEF Swap, Shape, Holds, Inside
    <2>2. t \in todo[c] /\ t \in Documents
      BY <2>1, TurnIsIn
    <2>3. Apply(c, t, copy[c][t]) /\ todo' = todo
      BY <1>5 DEF Swap
    <2> HIDE DEF t
    <2>4. Safe(t)
      BY <2>1, <2>2 DEF Held, Applies
    <2>5. TreesApplied => copy[c][t] \subseteq applied[t] \cup {c}
      BY <2>2 DEF TreesApplied
    <2>6. \A e \in Documents : Effect(e)
      BY <1>3, <2>1, <2>2, <2>3, <2>4, <2>5
    <2>7. QED
      BY <1>1, <2>3, <2>6
  <1>6. QED
    BY <1>4, <1>5 DEF Applying, Operate, Relocate, Rebuild

\* Counting a change: its document is locked, or was moved.
LEMMA BumpEffect ==
  ASSUME Typed, Located, NEW c \in Callers, Bump(c)
  PROVE  LET t == Turn(c) IN
         /\ tree' = tree /\ applied' = applied
         /\ t \in todo[c] /\ t \in docs[c] /\ t \in Documents /\ c \in applied[t]
         /\ version'[t] = start[c][t] + 1
         /\ \A d \in Documents \ {t} : version'[d] = version[d]
         /\ todo'[c] = todo[c] \ {t}
         /\ (kind[c] # "move" /\ holder[t] = c) \/ Moved(t)
  <1> DEFINE t == Turn(c)
  <1>1. /\ pc[c] = "bump" /\ todo[c] # {} /\ todo[c] \subseteq docs[c]
        /\ kind[c] = "move" => Applies(c) = docs[c]
        /\ kind[c] # "move" => Applies(c) = (docs[c] \ todo[c]) \cup {t} /\ Held(c) = docs[c]
    BY At DEF Bump, Shape, Holds
  <1>2. t \in todo[c] /\ t \in docs[c] /\ t \in Documents
    BY <1>1, TurnIsIn
  <1>3. version' = [version EXCEPT ![t] = start[c][t] + 1] /\ todo' = [todo EXCEPT ![c] = @ \ {t}]
        /\ tree' = tree /\ applied' = applied
    BY DEF Bump
  <1> HIDE DEF t
  <1>4. c \in applied[t]
    BY <1>1, <1>2 DEF Applies
  <1>5. (kind[c] # "move" /\ holder[t] = c) \/ Moved(t)
    BY <1>1, <1>2, <1>4 DEF Held, Moved
  <1>6. /\ version'[t] = start[c][t] + 1 /\ \A d \in Documents \ {t} : version'[d] = version[d]
        /\ todo'[c] = todo[c] \ {t}
    BY <1>2, <1>3 DEF Typed
  <1>7. QED
    BY <1>2, <1>3, <1>4, <1>5, <1>6 DEF t

\* What every step but a count does to one document.
NotBumped(c, d) ==
  /\ version'[d] = version[d] /\ Counted(d)' = Counted(d) /\ Pending(d) \subseteq Pending(d)'
  /\ applied[d] \subseteq applied'[d] /\ (Moved(d) => Moved(d)')
  /\ \/ tree'[d] = tree[d] /\ applied'[d] = applied[d]
     \/ holder[d] = c /\ c \in Pending(d)'
  /\ TreesApplied => tree'[d] \subseteq applied'[d]

\* Every step but the update of a version leaves a document so.
LEMMA NotBumpedEffect ==
  ASSUME Typed, Located, NEW c \in Callers, Quiet(c) \/ Applying(c), OthersKept(c),
         NEW d \in Documents
  PROVE  NotBumped(c, d)
  <1>1. /\ \A e \in Callers \ {c} : todo'[e] = todo[e] /\ (e \in applied'[d] <=> e \in applied[d])
        /\ kind' = kind /\ applied[d] \subseteq Callers
    BY DEF OthersKept, Typed, Changes
  <1>2. version'[d] = version[d]
    BY QuietEffect, ApplyingEffect
  <1>3. /\ \/ tree'[d] = tree[d] /\ applied'[d] = applied[d]
           \/ /\ holder[d] = c /\ c \notin applied[d] /\ d \in todo[c] /\ todo'[c] = todo[c]
              /\ applied'[d] = applied[d] \cup {c}
        /\ TreesApplied => tree'[d] \subseteq applied'[d]
    <2>1. CASE Quiet(c)
      BY <2>1, QuietEffect DEF TreesApplied
    <2>2. CASE Applying(c)
      BY <2>2, ApplyingEffect DEF TreesApplied
    <2>3. QED
      BY <2>1, <2>2
  <1>4. todo'[c] = todo[c] \/ c \notin applied[d]
    BY QuietEffect, ApplyingEffect DEF Applies
  <1>5. applied[d] \subseteq applied'[d]
    BY <1>3
  <1>6. Moved(d) => Moved(d)'
    BY <1>1, <1>5 DEF Moved
  <1>7. Counted(d)' = Counted(d) /\ Pending(d) \subseteq Pending(d)'
    <2>1. CASE applied'[d] = applied[d]
      BY <1>1, <1>4, <2>1 DEF Counted, Pending
    <2>2. CASE /\ c \notin applied[d] /\ d \in todo[c] /\ todo'[c] = todo[c]
               /\ applied'[d] = applied[d] \cup {c}
      BY <1>1, <2>2 DEF Counted, Pending
    <2>3. QED
      BY <1>3, <2>1, <2>2
  <1>8. applied'[d] = applied[d] \/ (holder[d] = c /\ c \in Pending(d)')
    BY <1>3 DEF Pending
  <1>9. QED
    BY <1>2, <1>3, <1>5, <1>6, <1>7, <1>8 DEF NotBumped, Pending

\* Counting a change of d moves it from the pending ones to the counted ones.
Bumped(c, d) ==
  /\ version'[d] = start[c][d] + 1
  /\ c \notin Counted(d) /\ Counted(d)' = Counted(d) \cup {c}
  /\ d \in todo[c] /\ d \notin todo'[c] /\ c \in applied[d]
  /\ (kind[c] # "move" /\ holder[d] = c) \/ Moved(d)

\* The update of a version leaves its own document so, and every other as it was.
LEMMA BumpedEffect ==
  ASSUME Typed, Located, NEW c \in Callers, Bump(c), OthersKept(c), NEW d \in Documents
  PROVE  /\ tree'[d] = tree[d] /\ applied'[d] = applied[d] /\ Moved(d)' = Moved(d)
         /\ \/ d = Turn(c) /\ Bumped(c, d)
            \/ /\ d # Turn(c) /\ version'[d] = version[d]
               /\ Counted(d)' = Counted(d) /\ Pending(d)' = Pending(d)
  <1> DEFINE t == Turn(c)
  <1>1. /\ tree' = tree /\ applied' = applied
        /\ t \in todo[c] /\ t \in docs[c] /\ t \in Documents /\ c \in applied[t]
        /\ version'[t] = start[c][t] + 1
        /\ \A f \in Documents \ {t} : version'[f] = version[f]
        /\ todo'[c] = todo[c] \ {t}
        /\ (kind[c] # "move" /\ holder[t] = c) \/ Moved(t)
    BY BumpEffect
  <1>2. /\ \A e \in Callers \ {c} : todo'[e] = todo[e]
        /\ kind' = kind /\ applied[d] \subseteq Callers
    BY DEF OthersKept, Typed, Changes
  <1> HIDE DEF t
  <1>3. Moved(d)' = Moved(d)
    BY <1>1, <1>2 DEF Moved
  <1>4. CASE d = t
    <2>1. c \notin Counted(d) /\ Counted(d)' = Counted(d) \cup {c}
      BY <1>1, <1>2, <1>4 DEF Counted
    <2>2. QED
      BY <1>1, <1>3, <1>4, <2>1 DEF Bumped, t
  <1>5. CASE d # t
    <2>1. Counted(d)' = Counted(d) /\ Pending(d)' = Pending(d)
      BY <1>1, <1>2, <1>5 DEF Counted, Pending
    <2>2. QED
      BY <1>1, <1>3, <1>5, <2>1 DEF t
  <1>6. QED
    BY <1>4, <1>5

\* A change in a document that its version does not count yet, but for a
\* move's, is one its caller makes with the document locked.
LEMMA PendingHeld ==
  ASSUME Typed, Located, NEW d \in Documents, NEW e \in Pending(d), kind[e] # "move"
  PROVE  e \in Callers /\ holder[d] = e /\ pc[e] = "bump"
  <1>1. e \in Callers /\ d \in Applies(e) /\ d \in todo[e]
    BY DEF Pending, Applies, Typed, Changes
  <1>2. /\ Shape(e) /\ Holds(e) /\ Answers(e) /\ Applied(e)
        /\ pc[e] \in PCs /\ outcome[e] \in Outcomes /\ docs[e] \subseteq Documents
    BY <1>1 DEF Located, Typed
  <1>3. pc[e] \notin Early /\ pc[e] \notin {"release", "commit", "done"}
    BY <1>1, <1>2 DEF Shape, Applied
  <1>4. pc[e] \in {"swap", "bump"}
    BY <1>2, <1>3 DEF PCs, Early
  <1>5. pc[e] # "swap"
    BY <1>1, <1>2, <1>4, At
  <1>6. Held(e) = docs[e] /\ todo[e] \subseteq docs[e]
    BY <1>2, <1>4, <1>5 DEF Holds, Shape
  <1>7. QED
    BY <1>1, <1>4, <1>5, <1>6 DEF Held

-----------------------------------------------------------------------------
(* Versions.                                                               *)

\* The versions a caller remembers are versions it has read.
LEMMA ReadsVersions ==
  ASSUME Typed, NEW c \in Callers, Step(c), NEW d \in Documents
  PROVE  /\ saw'[c][d] \in {saw[c][d], version[d]}
         /\ start'[c][d] \in {start[c][d], version[d]}
  <1>1. saw' = saw \/ saw' = [saw EXCEPT ![c] = version]
    BY DEF Step, Issue, Check, Render, Lock, Release, CheckLocked, Run, Recheck, Swap, Bump,
           Operate, Relocate, Commit, Rebuild, command
  <1>2. \/ start' = start \/ start' = [start EXCEPT ![c] = version]
        \/ Commit(c)
    BY DEF Step, Issue, Check, Render, Lock, Release, CheckLocked, Run, Recheck, Swap, Bump,
           Operate, Relocate, Rebuild
  <1>3. saw'[c][d] \in {saw[c][d], version[d]}
    BY <1>1 DEF Typed
  <1>4. start'[c][d] \in {start[c][d], version[d]}
    <2>1. CASE Commit(c)
      <3> DEFINE t == Turn(c)
      <3>1. start' = [start EXCEPT ![c][t] = version[t]]
        BY <2>1 DEF Commit
      <3> HIDE DEF t
      <3>2. QED
        BY <3>1 DEF Typed
    <2>2. CASE start' = start \/ start' = [start EXCEPT ![c] = version]
      BY <2>2 DEF Typed
    <2>3. QED
      BY <1>2, <2>1, <2>2
  <1>5. QED
    BY <1>3, <1>4

\* The changes counted in a document are finitely many.
LEMMA CountedFinite ==
  ASSUME Typed, NEW d \in Documents
  PROVE  /\ IsFiniteSet(applied[d]) /\ IsFiniteSet(Counted(d)) /\ Cardinality(Counted(d)) \in Nat
         /\ Cardinality(Counted(d)) <= Cardinality(Callers)
  <1>1. Counted(d) \in SUBSET Callers /\ applied[d] \in SUBSET Callers
    BY DEF Typed, Changes, Counted
  <1> HIDE DEF Counted
  <1>2. QED
    BY <1>1, CallersAssumption, FS_Subset, FS_CardinalityType

\* The versions keep counting the changes: no update of a locked document is lost.
LEMMA StepKeepsVersionBounded ==
  ASSUME Typed, Located, VersionBounded, StartCurrent, NEW c \in Callers, Step(c)
  PROVE  VersionBounded'
  <1> DEFINE Bound(d) ==
        /\ version[d] <= 1 + Cardinality(Counted(d))
        /\ \A e \in Callers : /\ saw[e][d] <= 1 + Cardinality(Counted(d))
                              /\ start[e][d] <= 1 + Cardinality(Counted(d))
        /\ ~Moved(d) => version[d] = 1 + Cardinality(Counted(d))
  <1> SUFFICES ASSUME NEW d \in Documents PROVE Bound(d)'
    BY DEF VersionBounded
  <1>1. OthersKept(c) /\ Typed'
    BY StepLocates
  <1>2. Bound(d)
    BY DEF VersionBounded
  <1> DEFINE n == Cardinality(Counted(d))
             n1 == Cardinality(Counted(d)')
  <1>3. n \in Nat /\ n1 \in Nat /\ IsFiniteSet(Counted(d))
    <2>1. n \in Nat /\ IsFiniteSet(Counted(d))
      BY CountedFinite
    <2>2. Counted(d)' \in SUBSET Callers
      BY <1>1 DEF Typed, Changes, Counted
    <2>3. QED
      BY <2>1, <2>2, CallersAssumption, FS_Subset, FS_CardinalityType
  <1>4. \A e \in Callers : /\ saw'[e][d] \in {saw[e][d], version[d]}
                           /\ start'[e][d] \in {start[e][d], version[d]}
    BY <1>1, ReadsVersions DEF OthersKept
  <1>5. \A e \in Callers : /\ saw[e][d] \in Nat /\ start[e][d] \in Nat
                           /\ saw'[e][d] \in Nat /\ start'[e][d] \in Nat
    BY <1>1 DEF Typed
  <1>6. version[d] \in Nat /\ version'[d] \in Nat
    BY <1>1 DEF Typed
  <1>7. CASE /\ version'[d] = version[d] /\ Counted(d)' = Counted(d) /\ (Moved(d) => Moved(d)')
    <2>1. \A e \in Callers : saw'[e][d] <= 1 + n /\ start'[e][d] <= 1 + n
      BY <1>2, <1>4
    <2>2. QED
      BY <1>2, <1>7, <2>1
  <1>8. CASE Bumped(c, d) /\ Moved(d)' = Moved(d) /\ Bump(c)
    <2>1. n1 = n + 1 /\ version'[d] = start[c][d] + 1
      BY <1>3, <1>8, FS_AddElement DEF Bumped
    <2>2. start[c][d] <= 1 + n
      BY <1>2
    <2>3. ~Moved(d) => start[c][d] = version[d]
      BY <1>8 DEF Bumped, Bump, StartCurrent, Moved
    <2>4. \A e \in Callers : saw'[e][d] <= 1 + n /\ start'[e][d] <= 1 + n
      BY <1>2, <1>4
    <2> HIDE DEF n, n1
    <2>5. \A e \in Callers : saw'[e][d] <= 1 + n1 /\ start'[e][d] <= 1 + n1
      BY <1>3, <1>5, <2>1, <2>4
    <2>6. version'[d] <= 1 + n1
      BY <1>3, <1>5, <1>6, <2>1, <2>2
    <2>7. ~Moved(d)' => version'[d] = 1 + n1
      <3>1. ~Moved(d) => version[d] = 1 + n
        BY <1>2 DEF n
      <3>2. QED
        BY <1>3, <1>5, <1>6, <1>8, <2>1, <2>3, <3>1
    <2>8. QED
      BY <2>5, <2>6, <2>7 DEF n1
  <1>9. QED
    <2>1. CASE Bump(c)
      BY <1>1, <1>7, <1>8, <2>1, BumpedEffect
    <2>2. CASE Quiet(c) \/ Applying(c)
      <3>1. NotBumped(c, d)
        BY <1>1, <2>2, NotBumpedEffect
      <3>2. QED
        BY <1>7, <3>1 DEF NotBumped
    <2>3. QED
      BY <2>1, <2>2 DEF Step, Quiet, Applying

\* A lock is what keeps a document as it is.
LEMMA HeldStands ==
  ASSUME Typed, Located, NEW c \in Callers, Step(c),
         NEW e \in Callers \ {c}, NEW d \in Documents, holder[d] = e
  PROVE  /\ tree'[d] = tree[d] /\ applied'[d] = applied[d]
         /\ version'[d] = version[d] \/ Moved(d)
  <1>1. OthersKept(c)
    BY StepLocates
  <1>2. CASE Bump(c)
    BY <1>1, <1>2, BumpedEffect DEF Bumped
  <1>3. CASE Quiet(c) \/ Applying(c)
    BY <1>1, <1>3, NotBumpedEffect DEF NotBumped
  <1>4. QED
    BY <1>2, <1>3 DEF Step, Quiet, Applying

\* A document that a move has touched stays one that a move has touched.
LEMMA MovedStays ==
  ASSUME Typed, Located, NEW c \in Callers, Step(c), NEW d \in Documents
  PROVE  Moved(d) => Moved(d)'
  <1>1. OthersKept(c)
    BY StepLocates
  <1>2. CASE Bump(c)
    BY <1>1, <1>2, BumpedEffect
  <1>3. CASE Quiet(c) \/ Applying(c)
    BY <1>1, <1>3, NotBumpedEffect DEF NotBumped
  <1>4. QED
    BY <1>2, <1>3 DEF Step, Quiet, Applying

\* The documents of a command at work are locked for it.
LEMMA HeldAtWork ==
  ASSUME Typed, Located, NEW e \in Callers, NEW d \in docs[e],
         pc[e] \in Inside \/ (pc[e] = "bump" /\ kind[e] # "move")
  PROVE  d \in Documents /\ holder[d] = e
  <1>1. Holds(e) /\ d \in Documents
    BY At
  <1>2. Held(e) = docs[e]
    BY <1>1 DEF Holds
  <1>3. QED
    BY <1>1, <1>2 DEF Held

\* What is added to is the version the document has: nobody else counted in between.
LEMMA StepKeepsStartCurrent ==
  ASSUME Typed, Located, StartCurrent, NEW c \in Callers, Step(c)
  PROVE  StartCurrent'
  <1>1. OthersKept(c) /\ Typed' /\ Located'
    BY StepLocates
  <1> SUFFICES ASSUME NEW e \in Callers, NEW d \in todo'[e],
                      pc'[e] \in {"recheck", "swap", "bump"}, kind'[e] # "move", ~Moved(d)'
               PROVE  start'[e][d] = version'[d]
    BY DEF StartCurrent
  <1>2. kind' = kind /\ d \in Documents
    BY <1>1 DEF OthersKept, Typed
  <1>3. ~Moved(d)
    BY <1>2, MovedStays
  <1>4. CASE e # c
    <2>1. e \in Callers \ {c}
      BY <1>4
    <2>2. pc'[e] = pc[e] /\ todo'[e] = todo[e] /\ start'[e] = start[e]
      BY <1>1, <2>1 DEF OthersKept
    <2>3. d \in docs[e] /\ (pc[e] \in Inside \/ pc[e] = "bump")
      BY <2>2, At DEF Inside
    <2>4. holder[d] = e
      BY <1>2, <2>2, <2>3, At, HeldAtWork DEF Inside
    <2>5. version'[d] = version[d]
      BY <1>2, <1>3, <2>1, <2>4, HeldStands
    <2>6. QED
      BY <1>2, <1>3, <2>2, <2>5 DEF StartCurrent
  <1>5. CASE e = c
    <2>1. CASE Run(c)
      BY <1>2, <1>5, <2>1 DEF Run, Typed, shared
    <2>2. CASE Recheck(c)
      <3>1. \/ /\ pc[c] = "recheck" /\ start' = start
               /\ version' = version /\ todo' = todo
            \/ pc'[c] = "release"
        BY <2>2 DEF Recheck, GiveUp, Answer, Typed, shared
      <3>2. QED
        BY <1>2, <1>3, <1>5, <3>1 DEF StartCurrent
    <2>3. CASE Swap(c)
      BY <1>2, <1>3, <1>5, <2>3 DEF Swap, Typed, StartCurrent
    <2>4. CASE Bump(c)
      <3>1. pc[c] = "bump" /\ start' = start /\ todo'[c] \subseteq todo[c]
        BY <2>4 DEF Bump, Typed
      <3>2. version'[d] = version[d]
        BY <1>1, <1>2, <1>5, <2>4, BumpedEffect DEF Bumped
      <3>3. QED
        BY <1>2, <1>3, <1>5, <3>1, <3>2 DEF StartCurrent
    <2>5. CASE Operate(c) \/ Rebuild(c)
      <3>1. \/ pc'[c] = "release"
            \/ start' = [start EXCEPT ![c] = version] /\ version' = version
        BY <2>5 DEF Operate, Rebuild, GiveUp, Answer, Typed
      <3>2. QED
        BY <1>2, <1>5, <3>1 DEF Typed
    <2>6. CASE Relocate(c) \/ Commit(c)
      <3>1. kind[c] = "move"
        BY <2>6 DEF Relocate, Commit, Located, Shape
      <3>2. QED
        BY <1>2, <1>5, <3>1
    <2>7. CASE Issue(c) \/ Check(c) \/ Render(c) \/ Lock(c) \/ CheckLocked(c) \/ Release(c)
      <3>1. pc'[c] \notin {"recheck", "swap", "bump"}
        <4>1. CASE Release(c)
          <5>1. Held(c) # {}
            BY <4>1 DEF Located, Holds, Release
          <5>2. \E p \in {"release", "done", "commit"} : pc' = [pc EXCEPT ![c] = p]
            BY <4>1, <5>1, ReleaseCases
          <5>3. QED
            BY <5>2 DEF Typed
        <4>2. CASE Issue(c) \/ Check(c) \/ Render(c) \/ Lock(c) \/ CheckLocked(c)
          BY <4>2 DEF Issue, Check, Render, Lock, CheckLocked, GiveUp, Answer, Typed,
                      FirstStep, LockedStep
        <4>3. QED
          BY <2>7, <4>1, <4>2
      <3>2. QED
        BY <1>5, <3>1
    <2>8. QED
      BY <2>1, <2>2, <2>3, <2>4, <2>5, <2>6, <2>7 DEF Step
  <1>6. QED
    BY <1>4, <1>5

\* A tree holds only what was applied to it.
LEMMA StepKeepsTreesApplied ==
  ASSUME Typed, Located, TreesApplied, NEW c \in Callers, Step(c)
  PROVE  TreesApplied'
  <1>1. OthersKept(c) /\ Typed'
    BY StepLocates
  <1> SUFFICES ASSUME NEW d \in Documents
               PROVE  /\ tree'[d] \subseteq applied'[d]
                      /\ \A e \in Callers : copy'[e][d] \subseteq applied'[d] \cup {e}
    BY DEF TreesApplied
  <1>2. tree[d] \subseteq applied[d] /\ \A e \in Callers : copy[e][d] \subseteq applied[d] \cup {e}
    BY DEF TreesApplied
  <1>3. applied[d] \subseteq applied'[d] /\ tree'[d] \subseteq applied'[d]
    <2>1. CASE Bump(c)
      BY <1>1, <1>2, <2>1, BumpedEffect
    <2>2. CASE Quiet(c) \/ Applying(c)
      BY <1>1, <2>2, NotBumpedEffect DEF NotBumped
    <2>3. QED
      BY <2>1, <2>2 DEF Step, Quiet, Applying
  <1>4. copy'[c][d] \subseteq applied[d] \cup {c}
    <2>1. \/ copy' = copy \/ copy' = [copy EXCEPT ![c] = tree]
          \/ copy' = [copy EXCEPT ![c] = [f \in Documents |-> tree[f] \cup {c}]]
      BY DEF Step, Issue, Check, Render, Lock, Release, CheckLocked, Run, Recheck, Swap, Bump,
             Operate, Relocate, Commit, Rebuild
    <2>2. copy'[c][d] \in {copy[c][d], tree[d], tree[d] \cup {c}}
      BY <2>1 DEF Typed
    <2>3. QED
      BY <1>2, <2>2
  <1>5. \A e \in Callers \ {c} : copy'[e] = copy[e]
    BY <1>1 DEF OthersKept
  <1>6. QED
    BY <1>2, <1>3, <1>4, <1>5

-----------------------------------------------------------------------------
(* Trees that were read, and trees that are changed.                       *)

\* A version read still stands for the tree read with it.
LEMMA StepKeepsSawTree ==
  ASSUME Typed, Located, VersionBounded, StartCurrent, SawTree, NEW c \in Callers, Step(c)
  PROVE  SawTree'
  <1>1. OthersKept(c) /\ Typed'
    BY StepLocates
  <1> SUFFICES ASSUME NEW e \in Callers, NEW d \in Documents, checked'[e], ~Moved(d)'
               PROVE  /\ saw'[e][d] <= version'[d]
                      /\ saw'[e][d] = version'[d] => Pending(d)' # {} \/ tree'[d] = seen'[e][d]
    BY DEF SawTree
  <1>2. ~Moved(d)
    BY MovedStays
  <1>3. /\ version[d] \in Nat /\ version'[d] \in Nat
        /\ saw[e][d] \in Nat /\ saw'[e][d] \in Nat
    BY <1>1 DEF Typed
  <1>4. \/ Issue(c) /\ e = c /\ saw'[e][d] = version[d] /\ seen'[e][d] = tree[d]
        \/ saw'[e][d] = saw[e][d] /\ seen'[e][d] = seen[e][d] /\ checked[e]
    <2>1. CASE e # c
      BY <1>1, <2>1 DEF OthersKept
    <2>2. CASE e = c /\ ~Issue(c)
      <3>1. saw' = saw /\ seen' = seen /\ checked' = checked
        BY <2>2 DEF Step, Check, Render, Lock, Release, CheckLocked, Run, Recheck, Swap, Bump,
               Operate, Relocate, Commit, Rebuild, command
      <3>2. QED
        BY <3>1
    <2>3. CASE e = c /\ Issue(c)
      <3>1. \/ saw' = [saw EXCEPT ![c] = version] /\ seen' = [seen EXCEPT ![c] = tree]
            \/ saw' = saw /\ seen' = seen /\ checked' = checked
        BY <2>3 DEF Issue
      <3>2. QED
        BY <2>3, <3>1 DEF Typed
    <2>4. QED
      BY <2>1, <2>2, <2>3
  <1>5. CASE Issue(c) /\ e = c /\ saw'[e][d] = version[d] /\ seen'[e][d] = tree[d]
    <2>1. version' = version /\ tree' = tree
      BY <1>5 DEF Issue, shared
    <2>2. QED
      BY <1>3, <1>5, <2>1
  <1>6. CASE saw'[e][d] = saw[e][d] /\ seen'[e][d] = seen[e][d] /\ checked[e]
    <2>1. /\ saw[e][d] <= version[d]
          /\ saw[e][d] = version[d] => Pending(d) # {} \/ tree[d] = seen[e][d]
      BY <1>2, <1>6 DEF SawTree
    <2>2. CASE Quiet(c) \/ Applying(c)
      <3>1. NotBumped(c, d)
        BY <1>1, <2>2, NotBumpedEffect
      <3>2. QED
        BY <1>6, <2>1, <3>1 DEF NotBumped
    <2>3. CASE Bump(c)
      <3>1. \/ version'[d] = version[d] /\ Pending(d)' = Pending(d) /\ tree'[d] = tree[d]
            \/ Bumped(c, d)
        BY <1>1, <2>3, BumpedEffect
      <3>2. CASE Bumped(c, d)
        <4>1. start[c][d] = version[d]
          BY <1>2, <2>3, <3>2 DEF Bumped, Bump, StartCurrent
        <4>2. version'[d] = version[d] + 1
          BY <3>2, <4>1 DEF Bumped
        <4>3. QED
          BY <1>3, <1>6, <2>1, <4>2
      <3>3. QED
        BY <1>6, <2>1, <3>1, <3>2
    <2>4. QED
      BY <2>2, <2>3 DEF Step, Quiet, Applying
  <1>7. QED
    BY <1>4, <1>5, <1>6

\* A caller that has the lock of a document, and has not changed it, finds it
\* with every change counted: its version stands for the tree.
LEMMA CheckSeesTree ==
  ASSUME Typed, Located, SawTree, NEW c \in Callers, NEW d \in Documents,
         holder[d] = c, pc[c] # "bump", checked[c], ~Moved(d), version[d] = saw[c][d]
  PROVE  tree[d] = seen[c][d]
  <1>1. \A e \in Pending(d) : kind[e] # "move"
    BY DEF Moved, Pending
  <1>2. Pending(d) = {}
    BY <1>1, PendingHeld
  <1>3. QED
    BY <1>2 DEF SawTree

\* Under its locks a checked caller finds the trees it read.
LEMMA StepKeepsSeenUntilSwap ==
  ASSUME Typed, Located, SawTree, SeenUntilSwap, NEW c \in Callers, Step(c)
  PROVE  SeenUntilSwap'
  <1>1. OthersKept(c) /\ Typed' /\ Located'
    BY StepLocates
  <1> SUFFICES ASSUME NEW e \in Callers, NEW d \in docs'[e],
                      kind'[e] \in {"batch", "apply_subtree"}, checked'[e],
                      pc'[e] \in {"run", "recheck", "swap", "bump"}, ~Moved(d)'
               PROVE  IF e \in applied'[d] THEN basis'[e][d] = seen'[e][d]
                                           ELSE tree'[d] = seen'[e][d]
    BY DEF SeenUntilSwap
  <1>2. kind' = kind /\ d \in Documents /\ kind[e] # "move"
    BY <1>1 DEF OthersKept, Typed
  <1>3. ~Moved(d)
    BY <1>2, MovedStays
  <1>4. CASE e # c
    <2>1. e \in Callers \ {c}
      BY <1>4
    <2>2. /\ pc'[e] = pc[e] /\ docs'[e] = docs[e] /\ seen'[e] = seen[e] /\ basis'[e] = basis[e]
          /\ checked'[e] = checked[e]
      BY <1>1, <2>1 DEF OthersKept
    <2>3. holder[d] = e
      BY <1>2, <2>2, HeldAtWork DEF Inside
    <2>4. tree'[d] = tree[d] /\ applied'[d] = applied[d]
      BY <1>2, <2>1, <2>3, HeldStands
    <2>5. QED
      BY <1>2, <1>3, <2>2, <2>4 DEF SeenUntilSwap
  <1>5. CASE e = c
    <2>1. CASE CheckLocked(c)
      <3>1. /\ pc[c] = "check_locked" /\ \A f \in docs[c] : version[f] = saw[c][f]
            /\ tree' = tree /\ applied' = applied /\ docs' = docs /\ seen' = seen /\ checked' = checked
        BY <1>5, <2>1 DEF CheckLocked, GiveUp, Answer, Typed, shared, command
      <3>2. holder[d] = c /\ c \notin applied[d]
        BY <1>2, <1>5, <3>1, HeldAtWork, At DEF Inside, Early, Applies
      <3>3. tree[d] = seen[c][d]
        BY <1>2, <1>3, <1>5, <3>1, <3>2, CheckSeesTree
      <3>4. QED
        BY <1>5, <3>1, <3>2, <3>3
    <2>2. CASE Run(c) \/ Recheck(c) \/ Bump(c)
      <3>1. /\ pc[c] \in {"run", "recheck", "bump"}
            /\ tree' = tree /\ applied' = applied /\ docs' = docs /\ seen' = seen /\ checked' = checked
            /\ basis' = basis
        BY <2>2 DEF Run, Recheck, Bump, shared, command
      <3>2. QED
        BY <1>2, <1>3, <1>5, <3>1 DEF SeenUntilSwap
    <2>3. CASE Swap(c)
      <3>1. /\ pc[c] = "swap" /\ todo[c] # {} /\ Applies(c) = docs[c] \ todo[c]
            /\ docs' = docs /\ seen' = seen /\ checked' = checked
            /\ Apply(c, Turn(c), copy[c][Turn(c)])
        BY <2>3, At DEF Swap, Shape, command
      <3>2. Turn(c) \in todo[c] /\ Turn(c) \in Documents
        BY <3>1, TurnIsIn
      <3>3. CASE d = Turn(c)
        <4>1. c \notin applied[d]
          BY <3>1, <3>2, <3>3 DEF Applies
        <4>2. tree[d] = seen[c][d]
          BY <1>2, <1>3, <1>5, <3>1, <4>1 DEF SeenUntilSwap
        <4>3. applied'[d] = applied[d] \cup {c} /\ basis'[c][d] = tree[d]
          BY <1>2, <3>1, <3>3, ApplyEffect
        <4>4. QED
          BY <1>5, <3>1, <4>2, <4>3
      <3>4. CASE d # Turn(c)
        <4>1. tree'[d] = tree[d] /\ applied'[d] = applied[d] /\ basis'[c][d] = basis[c][d]
          BY <1>2, <3>1, <3>2, <3>4, ApplyEffect
        <4>2. QED
          BY <1>2, <1>3, <1>5, <3>1, <4>1 DEF SeenUntilSwap
      <3>5. QED
        BY <3>3, <3>4
    <2>4. CASE Operate(c)
      <3>1. /\ pc[c] = "mutate" /\ kind[c] = "apply_subtree" /\ docs' = docs /\ seen' = seen
            /\ checked' = checked
        BY <1>2, <1>5, <2>4 DEF Operate, command
      <3>2. /\ version[source[c]] = saw[c][source[c]]
            /\ Apply(c, source[c], tree[source[c]] \cup {c})
        BY <1>5, <2>4, <3>1 DEF Operate, Stale, GiveUp, Answer, Typed
      <3>3. d = source[c]
        BY <1>5, <3>1 DEF Located, Shape, Commands
      <3>4. holder[d] = c
        BY <1>2, <1>5, <3>1, HeldAtWork DEF Inside
      <3>5. tree[d] = seen[c][d]
        BY <1>2, <1>3, <1>5, <3>1, <3>2, <3>3, <3>4, CheckSeesTree
      <3>6. applied'[d] = applied[d] \cup {c} /\ basis'[c][d] = tree[d]
        BY <1>2, <3>2, <3>3, ApplyEffect
      <3>7. QED
        BY <1>5, <3>1, <3>5, <3>6
    <2>5. CASE Relocate(c) \/ Commit(c) \/ Rebuild(c)
      <3>1. kind[c] \in {"move", "reparse"}
        BY <2>5 DEF Relocate, Commit, Rebuild, Located, Shape
      <3>2. QED
        BY <1>2, <1>5, <3>1
    <2>6. CASE Issue(c) \/ Check(c) \/ Render(c) \/ Lock(c) \/ Release(c)
      <3>1. pc'[c] \notin {"run", "recheck", "swap", "bump"}
        <4>1. CASE Release(c)
          <5>1. Held(c) # {}
            BY <4>1 DEF Located, Holds, Release
          <5>2. \E p \in {"release", "done", "commit"} : pc' = [pc EXCEPT ![c] = p]
            BY <4>1, <5>1, ReleaseCases
          <5>3. QED
            BY <5>2 DEF Typed
        <4>2. CASE Issue(c) \/ Check(c) \/ Render(c) \/ Lock(c)
          BY <4>2 DEF Issue, Check, Render, Lock, Answer, Typed, FirstStep, LockedStep
        <4>3. QED
          BY <2>6, <4>1, <4>2
      <3>2. QED
        BY <1>5, <3>1
    <2>7. QED
      BY <2>1, <2>2, <2>3, <2>4, <2>5, <2>6 DEF Step
  <1>6. QED
    BY <1>4, <1>5

\* A batch's overlay is the tree as it is now with its own change added.
LEMMA StepKeepsOverlayCurrent ==
  ASSUME Typed, Located, OverlayCurrent, NEW c \in Callers, Step(c)
  PROVE  OverlayCurrent'
  <1>1. OthersKept(c) /\ Typed' /\ Located'
    BY StepLocates
  <1> SUFFICES ASSUME NEW e \in Callers, NEW d \in docs'[e], kind'[e] = "batch",
                      pc'[e] \in {"recheck", "swap", "bump"}, e \notin applied'[d]
               PROVE  copy'[e][d] = tree'[d] \cup {e}
    BY DEF OverlayCurrent
  <1>2. kind' = kind /\ d \in Documents /\ kind[e] = "batch"
    BY <1>1 DEF OthersKept, Typed
  <1>3. CASE e # c
    <2>1. e \in Callers \ {c}
      BY <1>3
    <2>2. pc'[e] = pc[e] /\ docs'[e] = docs[e] /\ copy'[e] = copy[e]
      BY <1>1, <2>1 DEF OthersKept
    <2>3. holder[d] = e
      BY <1>2, <2>2, HeldAtWork DEF Inside
    <2>4. tree'[d] = tree[d] /\ applied'[d] = applied[d]
      BY <1>2, <2>1, <2>3, HeldStands
    <2>5. QED
      BY <1>2, <2>2, <2>4 DEF OverlayCurrent
  <1>4. CASE e = c
    <2>1. CASE Run(c)
      BY <1>2, <1>4, <2>1 DEF Run, GiveUp, Answer, Typed, shared
    <2>2. CASE Recheck(c) \/ Bump(c)
      <3>1. /\ pc[c] \in {"recheck", "bump"} /\ tree' = tree /\ applied' = applied /\ docs' = docs
            /\ copy' = copy
        BY <2>2 DEF Recheck, Bump, shared, command
      <3>2. QED
        BY <1>2, <1>4, <3>1 DEF OverlayCurrent
    <2>3. CASE Swap(c)
      <3>1. /\ pc[c] = "swap" /\ todo[c] # {} /\ docs' = docs /\ copy' = copy
            /\ Apply(c, Turn(c), copy[c][Turn(c)])
        BY <2>3, At DEF Swap, Shape, command
      <3>2. Turn(c) \in Documents
        BY <3>1, TurnIsIn
      <3>3. d # Turn(c)
        BY <1>4, <3>1, <3>2, ApplyEffect
      <3>4. tree'[d] = tree[d] /\ applied'[d] = applied[d]
        BY <1>2, <3>1, <3>2, <3>3, ApplyEffect
      <3>5. QED
        BY <1>2, <1>4, <3>1, <3>4 DEF OverlayCurrent
    <2>4. CASE Operate(c) \/ Relocate(c) \/ Commit(c) \/ Rebuild(c)
      <3>1. kind[c] # "batch"
        BY <2>4 DEF Operate, Relocate, Commit, Rebuild, Located, Shape
      <3>2. QED
        BY <1>2, <1>4, <3>1
    <2>5. CASE Issue(c) \/ Check(c) \/ Render(c) \/ Lock(c) \/ CheckLocked(c) \/ Release(c)
      <3>1. pc'[c] \notin {"recheck", "swap", "bump"}
        <4>1. CASE Release(c)
          <5>1. Held(c) # {}
            BY <4>1 DEF Located, Holds, Release
          <5>2. \E p \in {"release", "done", "commit"} : pc' = [pc EXCEPT ![c] = p]
            BY <4>1, <5>1, ReleaseCases
          <5>3. QED
            BY <5>2 DEF Typed
        <4>2. CASE Issue(c) \/ Check(c) \/ Render(c) \/ Lock(c) \/ CheckLocked(c)
          BY <4>2 DEF Issue, Check, Render, Lock, CheckLocked, GiveUp, Answer, Typed,
                      FirstStep, LockedStep
        <4>3. QED
          BY <2>5, <4>1, <4>2
      <3>2. QED
        BY <1>4, <3>1
    <2>6. QED
      BY <2>1, <2>2, <2>3, <2>4, <2>5 DEF Step
  <1>5. QED
    BY <1>3, <1>4

\* What was checked before the lock was taken still holds when the change is applied.
LEMMA StepKeepsCheckedUnderLock ==
  ASSUME Typed, Located, SeenUntilSwap, CheckedUnderLock, NEW c \in Callers, Step(c)
  PROVE  CheckedUnderLock'
  <1>1. OthersKept(c) /\ Typed' /\ Located'
    BY StepLocates
  <1> SUFFICES ASSUME NEW e \in Callers, kind'[e] \in {"batch", "apply_subtree"}, checked'[e],
                      outcome'[e] = "ok", NEW d \in docs'[e], ~Moved(d)'
               PROVE  basis'[e][d] = seen'[e][d]
    BY DEF CheckedUnderLock, Fresh
  <1>2. kind' = kind /\ d \in Documents
    BY <1>1 DEF OthersKept, Typed
  <1>3. ~Moved(d)
    BY <1>2, MovedStays
  <1>4. CASE UNCHANGED <<checked[e], outcome[e], docs[e], basis[e], seen[e]>>
    BY <1>2, <1>3, <1>4 DEF CheckedUnderLock, Fresh
  <1>5. CASE e # c
    <2>1. e \in Callers \ {c}
      BY <1>5
    <2>2. QED
      BY <1>1, <1>4, <2>1 DEF OthersKept
  <1>6. CASE e = c
    <2>1. CASE Release(c)
      BY <1>4, <1>6, <2>1 DEF Release, command
    <2>2. CASE Bump(c)
      <3>1. /\ pc[c] = "bump" /\ docs' = docs /\ seen' = seen /\ checked' = checked /\ basis' = basis
            /\ applied' = applied
        BY <2>2 DEF Bump, command
      <3>2. pc'[c] = "release" /\ todo'[c] = {}
        <4>1. outcome[c] = "pending"
          BY <3>1, At
        <4>2. QED
          BY <1>2, <1>6, <2>2, <4>1 DEF Bump, Answer, Typed
      <3>3. Applies(c)' = docs'[c]
        BY <1>1, <1>2, <1>6, <3>2 DEF Located, Applied, Early
      <3>4. c \in applied[d]
        BY <1>6, <3>1, <3>3 DEF Applies
      <3>5. QED
        BY <1>2, <1>3, <1>6, <3>1, <3>4 DEF SeenUntilSwap
    <2>3. CASE ~Release(c) /\ ~Bump(c)
      <3>1. pc[c] \notin {"release", "done"}
        BY <2>3 DEF Step, Issue, Check, Render, Lock, CheckLocked, Run, Recheck, Swap,
               Operate, Relocate, Commit, Rebuild
      <3>2. outcome[c] = "pending"
        BY <3>1 DEF Located, Answers
      <3>3. outcome'[c] # "ok"
        BY <2>3, <3>2 DEF Step, Issue, Check, Render, Lock, CheckLocked, Run, Recheck, Swap,
               Operate, Relocate, Commit, Rebuild, GiveUp, Answer, Typed
      <3>4. QED
        BY <1>6, <3>3
    <2>4. QED
      BY <2>1, <2>2, <2>3
  <1>7. QED
    BY <1>5, <1>6

-----------------------------------------------------------------------------
(* The invariant, and what it says of the properties.                      *)

\* The invariant holds at the start, ...
LEMMA InitInv == Init => IInv
  <1> SUFFICES ASSUME Init PROVE IInv
    OBVIOUS
  <1>1. Typed /\ Located
    BY InitTyped, InitLocated
  <1>2. /\ \A d \in Documents : tree[d] = {} /\ applied[d] = {} /\ version[d] = 1
        /\ \A c \in Callers : /\ pc[c] = "idle" /\ checked[c] = FALSE /\ docs[c] = {}
                              /\ outcome[c] = "pending"
                              /\ \A d \in Documents : /\ saw[c][d] = 1 /\ start[c][d] = 1
                                                      /\ copy[c][d] = {}
    BY DEF Init
  <1>3. \A d \in Documents : Cardinality(Counted(d)) = 0
    <2>1. \A d \in Documents : Counted(d) = {}
      BY <1>2 DEF Counted
    <2>2. QED
      BY <2>1, FS_EmptySet
  <1>4. VersionBounded
    BY <1>2, <1>3 DEF VersionBounded
  <1>5. StartCurrent /\ SawTree /\ SeenUntilSwap /\ OverlayCurrent
    BY <1>2 DEF StartCurrent, SawTree, SeenUntilSwap, OverlayCurrent
  <1>6. CheckedUnderLock
    BY <1>2 DEF CheckedUnderLock
  <1>7. TreesApplied
    BY <1>2 DEF TreesApplied
  <1>8. QED
    BY <1>1, <1>4, <1>5, <1>6, <1>7 DEF IInv

\* ... every step keeps it, ...
LEMMA StepInv == IInv /\ [Next]_vars => IInv'
  <1> SUFFICES ASSUME IInv, [Next]_vars PROVE IInv'
    OBVIOUS
  <1>1. CASE UNCHANGED vars
    <2>1. /\ \A d : Moved(d)' = Moved(d) /\ Counted(d)' = Counted(d) /\ Pending(d)' = Pending(d)
          /\ \A c : /\ Held(c)' = Held(c) /\ Turn(c)' = Turn(c)
                   /\ Applies(c)' = Applies(c) /\ Fresh(c)' = Fresh(c)
      BY <1>1 DEF vars, shared, command, Moved, Counted, Pending, Held, Turn, Applies, Fresh
    <2>2. /\ tree' = tree /\ version' = version /\ holder' = holder /\ pc' = pc /\ kind' = kind
          /\ docs' = docs /\ source' = source /\ checked' = checked /\ saw' = saw /\ copy' = copy
          /\ start' = start /\ todo' = todo /\ outcome' = outcome /\ seen' = seen
          /\ basis' = basis /\ applied' = applied
      BY <1>1 DEF vars
    <2>3. Typed'
      BY <2>2 DEF IInv, Typed
    <2>4. Located'
      BY <2>1, <2>2 DEF IInv, Located, Shape, Holds, Answers, Applied
    <2>5. VersionBounded'
      BY <2>1, <2>2 DEF IInv, VersionBounded
    <2>6. StartCurrent'
      BY <2>1, <2>2 DEF IInv, StartCurrent
    <2>7. SawTree'
      BY <2>1, <2>2 DEF IInv, SawTree
    <2>8. SeenUntilSwap'
      BY <2>1, <2>2 DEF IInv, SeenUntilSwap
    <2>9. CheckedUnderLock'
      BY <2>1, <2>2 DEF IInv, CheckedUnderLock
    <2>10. OverlayCurrent' /\ TreesApplied'
      BY <2>1, <2>2 DEF IInv, OverlayCurrent, TreesApplied
    <2>11. QED
      BY <2>3, <2>4, <2>5, <2>6, <2>7, <2>8, <2>9, <2>10 DEF IInv
  <1>2. ASSUME NEW c \in Callers, Step(c) PROVE IInv'
    BY <1>2, StepLocates, StepKeepsVersionBounded, StepKeepsStartCurrent, StepKeepsSawTree,
       StepKeepsSeenUntilSwap, StepKeepsCheckedUnderLock, StepKeepsOverlayCurrent,
       StepKeepsTreesApplied DEF IInv
  <1>3. QED
    BY <1>1, <1>2 DEF Next, Rest

\* ... and so it holds in every behaviour.
LEMMA InvHolds == Spec => []IInv
  BY InitInv, StepInv, PTL DEF Spec

\* Every variable keeps its type, and no version runs ahead of the number of
\* callers: _committed and commit add one per change.
THEOREM TypeCorrect == Spec => []TypeOK
  <1>1. ASSUME IInv PROVE TypeOK
    <2>1. ASSUME NEW n \in Nat, NEW d \in Documents, n <= 1 + Cardinality(Counted(d))
          PROVE  n \in Versions
      <3>1. /\ Cardinality(Counted(d)) \in Nat
            /\ Cardinality(Counted(d)) <= Cardinality(Callers)
        BY <1>1, CountedFinite DEF IInv
      <3>2. Cardinality(Callers) \in Nat
        BY CallersAssumption, FS_CardinalityType
      <3> HIDE DEF Counted
      <3>3. QED
        BY <2>1, <3>1, <3>2 DEF Versions
    <2>2. Typed /\ VersionBounded
      BY <1>1 DEF IInv
    <2>3. version \in [Documents -> Versions]
      BY <2>1, <2>2 DEF Typed, VersionBounded
    <2>4. \A c \in Callers : saw[c] \in [Documents -> Versions] /\ start[c] \in [Documents -> Versions]
      BY <2>1, <2>2 DEF Typed, VersionBounded
    <2>5. saw \in [Callers -> [Documents -> Versions]] /\ start \in [Callers -> [Documents -> Versions]]
      BY <2>2, <2>4 DEF Typed
    <2>6. QED
      BY <2>2, <2>3, <2>5 DEF Typed, TypeOK
  <1>2. QED
    BY <1>1, InvHolds, PTL

\* A batch or an apply_subtree that passed expected_version changed the trees
\* its caller had read (TransactionCoordinator.execute, facade.apply_subtree),
\* whatever commands of its family ran at the same time.
THEOREM CheckedCorrect == Spec => []CheckedUnderLock
  <1>1. IInv => CheckedUnderLock
    BY DEF IInv
  <1>2. QED
    BY <1>1, InvHolds, PTL

\* A batch that is done is in all of its documents or in none, as it answered
\* (TransactionCoordinator.commit and rollback).
THEOREM BatchIsAtomic == Spec => []AllOrNothing
  <1>1. ASSUME IInv, NEW c \in Callers, kind[c] = "batch", pc[c] = "done"
        PROVE  {d \in Documents : c \in applied[d] \cup tree[d]} = IF outcome[c] = "ok" THEN docs[c] ELSE {}
    <2>1. {d \in Documents : c \in applied[d] \cup tree[d]} = Applies(c)
      BY <1>1 DEF IInv, TreesApplied, Applies
    <2>2. outcome[c] \in {"ok", "conflict", "failed"} /\ todo[c] = {}
      BY <1>1 DEF IInv, Located, Answers, Shape, Typed, Outcomes
    <2>3. Applies(c) = IF outcome[c] = "ok" THEN docs[c] ELSE {}
      BY <1>1, <2>2 DEF IInv, Located, Applied, Early
    <2>4. QED
      BY <2>1, <2>3
  <1>2. IInv => AllOrNothing
    BY <1>1 DEF AllOrNothing
  <1>3. QED
    BY <1>2, InvHolds, PTL

\* document_version counts the changes of a document nobody has locked and no
\* move has touched: _committed and commit never skip or repeat a number.
THEOREM VersionsCount == Spec => []VersionCounts
  <1>1. ASSUME IInv, NEW d \in Documents, holder[d] = Nobody, ~Moved(d)
        PROVE  version[d] = 1 + Cardinality(applied[d])
    <2>1. \A e \in Pending(d) : kind[e] # "move"
      BY <1>1 DEF Moved, Pending
    <2>2. Pending(d) = {}
      BY <1>1, <2>1, PendingHeld, CallersAssumption DEF IInv
    <2>3. Counted(d) = applied[d]
      BY <2>2 DEF Pending, Counted
    <2>4. QED
      BY <1>1, <2>3 DEF IInv, VersionBounded
  <1>2. IInv => VersionCounts
    BY <1>1 DEF VersionCounts
  <1>3. QED
    BY <1>2, InvHolds, PTL

\* No step but the one that puts a reparsed document in place (facade.reparse)
\* takes a change out of a tree.
THEOREM DropsOnlyByReparse == Spec => OnlyReparseDrops
  <1> DEFINE Kept == \A d \in Documents :
               tree[d] \subseteq tree'[d] \/ \E c \in Callers : kind[c] = "reparse" /\ Rebuild(c)
  <1>1. ASSUME IInv, NEW c \in Callers, Step(c) PROVE Kept
    <2>1. OthersKept(c) /\ Typed /\ Located /\ TreesApplied /\ OverlayCurrent
      BY <1>1, StepLocates DEF IInv
    <2>2. CASE Quiet(c) \/ Bump(c)
      BY <2>1, <2>2, QuietEffect, BumpEffect
    <2>3. CASE Rebuild(c)
      BY <2>3 DEF Rebuild
    <2>4. CASE Operate(c) \/ Relocate(c)
      <3>1. pc[c] = "mutate" /\ kind[c] # "reparse" /\ Applying(c)
        BY <2>4 DEF Operate, Relocate, Applying
      <3>2. QED
        BY <2>1, <3>1, ApplyingEffect
    <2>5. CASE Swap(c)
      <3>1. /\ pc[c] = "swap" /\ kind[c] = "batch" /\ todo[c] # {} /\ Applies(c) = docs[c] \ todo[c]
            /\ todo[c] \subseteq docs[c] /\ Apply(c, Turn(c), copy[c][Turn(c)])
        BY <2>1, <2>5, At DEF Swap, Shape, BatchPCs
      <3>2. Turn(c) \in todo[c] /\ Turn(c) \in Documents
        BY <2>1, <3>1, TurnIsIn
      <3>3. copy[c][Turn(c)] = tree[Turn(c)] \cup {c}
        BY <2>1, <3>1, <3>2 DEF OverlayCurrent, Applies
      <3>4. ASSUME NEW d \in Documents PROVE tree[d] \subseteq tree'[d]
        BY <2>1, <3>1, <3>2, <3>3, ApplyEffect
      <3>5. QED
        BY <3>4
    <2>6. QED
      BY <1>1, <2>2, <2>3, <2>4, <2>5 DEF Step, Quiet
  <1>2. IInv /\ [Next]_vars => [Kept]_vars
    BY <1>1 DEF Next, Rest
  <1> HIDE DEF Kept
  <1>3. Spec => [][Kept]_vars
    BY <1>2, InvHolds, PTL DEF Spec
  <1>4. QED
    BY <1>3 DEF OnlyReparseDrops, Kept
=============================================================================
