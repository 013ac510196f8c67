--------------------------- MODULE TrackingProofs ---------------------------
(***************************************************************************)
(* Theorems about TrackingSystem: its types, that a path is tracked once,  *)
(* and that the monitor reports only what the user changed.                *)
(*                                                                         *)
(* A path would be tracked twice if a CREATE of the other side met an      *)
(* entry of it. The other side creates what it does not have, so the       *)
(* invariant has to say that it has every path with an entry here, or will *)
(* be told about it in this round (Known), from the moment a change        *)
(* arrives until it is recorded (Applied).                                 *)
(*                                                                         *)
(* The monitor would echo if what was applied and what is in the array     *)
(* differed: a path that came from the other side and was not touched      *)
(* since has an entry exactly if it exists, STABLE and with a time that is *)
(* not behind (Recorded). For that an UPDATE has to find the entry of a    *)
(* file (FilesTracked), and the other side has to know the end of a path   *)
(* that it removed (RemoteGone).                                           *)
(*                                                                         *)
(* An entry that outlives the end of its directory breaks all of this: the *)
(* other side does not have the path and nobody will report it. So each    *)
(* part excepts the paths in kept, and a deletion is shown to leave no     *)
(* other entry behind (ReportDeletionFormed, RemoteRemovesFormed).         *)
(***************************************************************************)
EXTENDS TrackingSystem, Integers, FiniteSetTheorems, WellFoundedInduction, TLAPS

-----------------------------------------------------------------------------
(* The array.                                                              *)
Arrays == Seq(TrackedFile)

(* A set of numbers has a least one.                                       *)
LEMMA LeastOf ==
  ASSUME NEW S, S \subseteq Nat, S # {}
  PROVE  Min(S) \in S /\ \A n \in S : Min(S) <= n
<1>1. IsWellFoundedOn(OpToRel(<, Nat), Nat)
  BY NatLessThanWellFounded
<1>2. \E x \in S : \A y \in S : ~ (<<y, x>> \in OpToRel(<, Nat))
  BY <1>1, WFMin
<1>3. PICK x \in S : \A y \in S : ~ (y < x)
  BY <1>2 DEF OpToRel
<1>4. Min(S) = CHOOSE m \in S : \A n \in S : m <= n
  BY DEF Min
<1>5. \A y \in S : x <= y
  BY <1>3
<1>. QED
  BY <1>4, <1>5

(* find_tracked_file() finds the first entry, if there is one.             *)
LEMMA FindsFirst ==
  ASSUME NEW array \in Arrays, NEW p
  PROVE  /\ Find(array, p) \in 0 .. Len(array)
         /\ Find(array, p) = 0 => \A j \in DOMAIN array : array[j].path # p
         /\ Find(array, p) # 0 =>
              /\ Find(array, p) \in DOMAIN array
              /\ array[Find(array, p)].path = p
              /\ \A j \in 1 .. Find(array, p) - 1 : array[j].path # p
<1>. DEFINE I == {j \in 1 .. Len(array) : array[j].path = p}
<1>1. Find(array, p) = IF I # {} THEN Min(I) ELSE 0
  BY DEF Find, SelectInSeq
<1>2. Len(array) \in Nat /\ DOMAIN array = 1 .. Len(array) /\ I \subseteq Nat
  BY DEF Arrays
<1>3. I # {} => Min(I) \in I /\ \A j \in I : Min(I) <= j
  BY <1>2, LeastOf
<1>4. CASE I = {}
  BY <1>1, <1>2, <1>4
<1>5. CASE I # {}
  <2>. DEFINE k == Min(I)
  <2>1. k \in 1 .. Len(array) /\ array[k].path = p /\ Find(array, p) = k
    BY <1>1, <1>3, <1>5
  <2>2. \A j \in 1 .. Len(array) : array[j].path = p => k <= j
    BY <1>3, <1>5
  <2>. HIDE DEF I, k
  <2>. QED
    BY <1>2, <2>1, <2>2
<1>. QED
  BY <1>4, <1>5

(* remove_tracked_file() takes out the first entry and moves the others    *)
(* up.                                                                     *)
LEMMA RemovesFirst ==
  ASSUME NEW array \in Arrays, NEW p
  PROVE  LET k == Find(array, p)
             rest == RemoveTracked(array, p)
         IN
         /\ k = 0 => rest = array
         /\ k # 0 => /\ rest \in Arrays /\ Len(rest) = Len(array) - 1
                     /\ \A j \in DOMAIN rest : rest[j] = array[IF j < k THEN j ELSE j + 1]
<1>. DEFINE k == Find(array, p)
            rest == RemoveTracked(array, p)
            n == Len(array)
<1>1. /\ n \in Nat /\ DOMAIN array = 1 .. n /\ k \in 0 .. n
      /\ k = 0 => \A j \in 1 .. n : array[j].path # p
      /\ k # 0 => array[k].path = p
  BY FindsFirst DEF Arrays
<1>2. rest = IF \E j \in 1 .. n : array[j].path = p THEN RemoveAt(array, k) ELSE array
  BY DEF RemoveTracked, RemoveFirstMatch, Find
<1>3. CASE k = 0
  BY <1>1, <1>2, <1>3
<1>4. CASE k # 0
  <2>. DEFINE a == SubSeq(array, 1, k - 1)
              b == SubSeq(array, k + 1, n)
  <2>1. k \in 1 .. n /\ array \in Seq(TrackedFile)
    BY <1>1, <1>4 DEF Arrays
  <2>2. rest = a \o b
    <3>1. \E j \in 1 .. n : array[j].path = p
      BY <1>1, <1>4
    <3>2. rest = RemoveAt(array, k)
      BY <1>2, <3>1
    <3>. QED
      BY <3>2 DEF RemoveAt
  <2>8. n = Len(array)
    OBVIOUS
  <2>. HIDE DEF k, rest, n
  <2>3. /\ a \in Seq(TrackedFile) /\ Len(a) = k - 1
        /\ \A j \in 1 .. k - 1 : a[j] = array[j]
    BY <1>1, <2>1, <2>8
  <2>4. /\ b \in Seq(TrackedFile) /\ Len(b) = n - k
        /\ \A j \in 1 .. n - k : b[j] = array[k + j]
    <3>1. b \in Seq(TrackedFile) /\ Len(b) = n - k
      <4>1. CASE k = n
        BY <1>1, <2>1, <2>8, <4>1
      <4>2. CASE k + 1 <= n
        <5>1. k + 1 \in 1 .. n + 1 /\ n \in k .. n
          BY <1>1, <2>1
        <5>2. b \in Seq(TrackedFile)
          BY <1>1, <2>1, <2>8, <5>1
        <5>3. Len(b) = n - (k + 1) + 1
          BY <1>1, <2>1, <2>8, <4>2
        <5>. QED
          BY <1>1, <2>1, <5>2, <5>3
      <4>. QED
        BY <1>1, <2>1, <4>1, <4>2
    <3>2. \A j \in 1 .. n - k : b[j] = array[(k + 1) + j - 1]
      BY <1>1, <2>1, <2>8
    <3>3. \A j \in 1 .. n - k : (k + 1) + j - 1 = k + j
      BY <1>1, <2>1
    <3>. QED
      BY <3>1, <3>2, <3>3
  <2>. HIDE DEF a, b
  <2>5. /\ rest \in Seq(TrackedFile) /\ Len(rest) = Len(a) + Len(b)
        /\ \A j \in 1 .. Len(a) : rest[j] = a[j]
        /\ \A j \in 1 .. Len(b) : rest[Len(a) + j] = b[j]
    <3>1. /\ a \o b \in Seq(TrackedFile) /\ Len(a \o b) = Len(a) + Len(b)
          /\ \A j \in 1 .. Len(a) : (a \o b)[j] = a[j]
          /\ \A j \in 1 .. Len(b) : (a \o b)[Len(a) + j] = b[j]
      BY <2>3, <2>4
    <3>. QED
      BY <2>2, <3>1
  <2>6. Len(rest) = n - 1 /\ DOMAIN rest = 1 .. n - 1
    BY <1>1, <2>1, <2>3, <2>4, <2>5
  <2>7. ASSUME NEW j \in 1 .. n - 1
        PROVE  rest[j] = array[IF j < k THEN j ELSE j + 1]
    <3>1. CASE j < k
      BY <1>1, <2>1, <2>3, <2>5, <3>1
    <3>2. CASE j >= k
      <4>1. j = Len(a) + (j - k + 1) /\ j - k + 1 \in 1 .. Len(b)
        BY <1>1, <2>1, <2>3, <2>4, <3>2
      <4>2. rest[j] = b[j - k + 1] /\ b[j - k + 1] = array[k + (j - k + 1)]
        BY <2>4, <2>5, <4>1
      <4>. QED
        BY <1>1, <2>1, <3>2, <4>2
    <3>. QED
      BY <1>1, <2>1, <3>1, <3>2
  <2>. QED
    BY <1>4, <2>5, <2>6, <2>7 DEF Arrays, k, rest, n
<1>. QED
  BY <1>3, <1>4

(* An entry that is overwritten, and one that is appended.                 *)
LEMMA EntryChanged ==
  ASSUME NEW array \in Arrays, NEW k \in DOMAIN array, NEW entry \in TrackedFile
  PROVE  /\ [array EXCEPT ![k] = entry] \in Arrays
         /\ DOMAIN [array EXCEPT ![k] = entry] = DOMAIN array
         /\ Len([array EXCEPT ![k] = entry]) = Len(array)
         /\ \A j \in DOMAIN array : [array EXCEPT ![k] = entry][j] = IF j = k THEN entry ELSE array[j]
BY DEF Arrays

LEMMA EntryAppended ==
  ASSUME NEW array \in Arrays, NEW entry \in TrackedFile
  PROVE  /\ Append(array, entry) \in Arrays
         /\ DOMAIN Append(array, entry) = DOMAIN array \cup {Len(array) + 1}
         /\ Len(array) + 1 \notin DOMAIN array
         /\ Len(Append(array, entry)) = Len(array) + 1
         /\ \A j \in DOMAIN array : Append(array, entry)[j] = array[j]
         /\ Append(array, entry)[Len(array) + 1] = entry
BY DEF Arrays

LEMMA ArrayFacts ==
  ASSUME NEW array \in Arrays
  PROVE  /\ Len(array) \in Nat /\ DOMAIN array = 1 .. Len(array)
         /\ \A j \in DOMAIN array :
              /\ array[j] \in TrackedFile
              /\ array[j].path \in Paths
              /\ array[j].modified_time \in 0 .. MaxClock
              /\ array[j].status \in {"STABLE", "CREATED", "UPDATED", "DELETED"}
<1>1. Len(array) \in Nat /\ DOMAIN array = 1 .. Len(array)
      /\ \A j \in DOMAIN array : array[j] \in TrackedFile
  BY DEF Arrays
<1>. QED
  BY <1>1 DEF TrackedFile

(* An entry with one field changed.                                        *)
LEMMA FieldChanged ==
  ASSUME NEW entry \in TrackedFile,
         NEW status \in {"STABLE", "CREATED", "UPDATED", "DELETED"}, NEW time \in 0 .. MaxClock
  PROVE  /\ [entry EXCEPT !.status = status] \in TrackedFile
         /\ [entry EXCEPT !.status = status].path = entry.path
         /\ [entry EXCEPT !.status = status].modified_time = entry.modified_time
         /\ [entry EXCEPT !.status = status].status = status
         /\ [entry EXCEPT !.modified_time = time] \in TrackedFile
         /\ [entry EXCEPT !.modified_time = time].path = entry.path
         /\ [entry EXCEPT !.modified_time = time].modified_time = time
         /\ [entry EXCEPT !.modified_time = time].status = entry.status
BY DEF TrackedFile

(* A removal by the other side: what Forget() leaves of the array are its  *)
(* entries in Left(), each once.                                           *)
LEMMA Forgets ==
  ASSUME NEW gone, tracked_files \in Arrays, Forget(gone)
  PROVE  /\ tracked_files' \in Arrays
         /\ \E at \in [DOMAIN tracked_files' -> DOMAIN tracked_files] :
              /\ \A j, k \in DOMAIN tracked_files' : at[j] = at[k] => j = k
              /\ \A j \in DOMAIN tracked_files' :
                   /\ tracked_files'[j] = tracked_files[at[j]]
                   /\ at[j] \in Left(tracked_files, gone)
              /\ \A k \in Left(tracked_files, gone) :
                   \E j \in DOMAIN tracked_files' : at[j] = k
<1>. DEFINE left == Left(tracked_files, gone)
            n == Cardinality(left)
<1>1. PICK at \in Bijection(1 .. n, left) : tracked_files' = [k \in 1 .. n |-> tracked_files[at[k]]]
  BY DEF Forget
<1>2. /\ at \in [1 .. n -> left]
      /\ \A j, k \in 1 .. n : at[j] = at[k] => j = k
      /\ \A k \in left : \E j \in 1 .. n : at[j] = k
  BY <1>1 DEF Bijection, Injection, IsInjective, Surjection
<1>3. left \subseteq DOMAIN tracked_files /\ DOMAIN tracked_files = 1 .. Len(tracked_files)
      /\ Len(tracked_files) \in Nat
  BY DEF Left, Arrays
<1>4. n \in Nat
  <2>1. IsFiniteSet(left)
    <3>1. IsFiniteSet(1 .. Len(tracked_files))
      BY <1>3, FS_Interval
    <3>. QED
      BY <1>3, <3>1, FS_Subset
  <2>. QED
    BY <2>1, FS_CardinalityType
<1>5. DOMAIN tracked_files' = 1 .. n
  BY <1>1
<1>6. \A k \in 1 .. n : tracked_files[at[k]] \in TrackedFile
  BY <1>2, <1>3 DEF Arrays
<1>7. tracked_files' \in Arrays
  <2>. HIDE DEF n, left
  <2>. QED
    BY <1>1, <1>4, <1>6 DEF Arrays
<1>. QED
  BY <1>1, <1>2, <1>3, <1>5, <1>7

-----------------------------------------------------------------------------
(* The types.                                                              *)
LEMMA InitTypes == Init => TypeOK
<1>. SUFFICES ASSUME Init PROVE TypeOK
  OBVIOUS
<1>1. 0 \in Versions /\ 0 \in 0 .. MaxClock /\ 0 \in 0 .. MaxUser /\ 0 \in 0 .. MaxRemote
  BY BoundsAssumption DEF Versions
<1>2. \A p \in Paths : ~Exists(p)
  BY DEF Init, Exists
<1>3. tracked_files \in Seq(TrackedFile) /\ i \in Nat \ {0} /\ todo \subseteq Paths
  BY DEF Init
<1>4. content \in [Paths -> Versions] /\ peer \in [Paths -> Versions] /\ mtime \in [Paths -> 0 .. MaxClock]
  BY <1>1 DEF Init
<1>5. unseen \subseteq Paths /\ kept \subseteq Paths /\ origin \in [Paths -> {"user", "remote"}]
  BY DEF Init
<1>6. applying \in [path : Paths, status : {"CREATE", "UPDATE"}] \cup {Idle}
  BY DEF Init
<1>. QED
  BY <1>1, <1>2, <1>3, <1>4, <1>5, <1>6 DEF Init, TypeOK

LEMMA QuietTypes ==
  ASSUME TypeOK,
         \/ Tick \/ StartRound \/ StartDeletions \/ StartReports \/ SkipStable \/ EndRound
         \/ UNCHANGED vars
  PROVE  TypeOK'
<1>2. CASE Tick
  BY <1>2, BoundsAssumption DEF TypeOK, Tick, diskVars, roundVars, historyVars, Exists
<1>3. CASE StartRound
  BY <1>3 DEF TypeOK, StartRound, diskVars, boundVars, historyVars, Exists
<1>4. CASE StartDeletions \/ StartReports \/ EndRound
  BY <1>4 DEF TypeOK, StartDeletions, StartReports, EndRound, diskVars, boundVars, historyVars,
     Exists
<1>5. CASE SkipStable
  BY <1>5 DEF TypeOK, SkipStable, diskVars, boundVars, historyVars, Exists
<1>6. CASE UNCHANGED vars
  BY <1>6 DEF TypeOK, vars, roundVars, diskVars, boundVars, historyVars, Exists
<1>. QED
  BY <1>2, <1>3, <1>4, <1>5, <1>6

LEMMA UserWritesTypes ==
  ASSUME TypeOK, NEW p \in Paths, UserWrites(p)
  PROVE  TypeOK'
<1>1. NewContent(p) \in Versions \ {0} /\ userChanges' \in 0 .. MaxUser
  BY BoundsAssumption DEF TypeOK, UserWrites, UserActs, NewContent, Versions
<1>2. unseen' \subseteq Paths /\ origin' \in [Paths -> {"user", "remote"}]
  BY DEF TypeOK, UserWrites, UserActs
<1>3. content' \in [Paths -> Versions] /\ mtime' \in [Paths -> 0 .. MaxClock]
  BY <1>1 DEF TypeOK, UserWrites
<1>4. \A q \in Paths : Exists(q)' => \A a \in Above[q] : Exists(a)'
  BY <1>1, PathsAssumption, AboveAssumption DEF TypeOK, UserWrites, Exists
<1>. QED
  BY <1>1, <1>2, <1>3, <1>4 DEF TypeOK, UserWrites, roundVars, Exists

LEMMA UserRemovesTypes ==
  ASSUME TypeOK, NEW p \in Paths, UserRemoves(p)
  PROVE  TypeOK'
<1>1. content' \in [Paths -> Versions]
  BY BoundsAssumption DEF TypeOK, UserRemoves, Versions
<1>2. \A q \in Paths : Exists(q)' => \A a \in Above[q] : Exists(a)'
  BY PathsAssumption, AboveAssumption DEF TypeOK, UserRemoves, Exists, Subtree
<1>3. unseen' \subseteq Paths /\ origin' \in [Paths -> {"user", "remote"}] /\ userChanges' \in 0 .. MaxUser
  BY BoundsAssumption DEF TypeOK, UserRemoves, UserActs
<1>. QED
  BY <1>1, <1>2, <1>3 DEF TypeOK, UserRemoves, roundVars, Exists

LEMMA CheckStatusTypes ==
  ASSUME TypeOK, NEW p \in Paths, CheckStatus(p)
  PROVE  TypeOK'
<1>. DEFINE k == Find(tracked_files, p)
<1>1. tracked_files' \in Seq(TrackedFile)
  <2>1. tracked_files \in Arrays /\ mtime[p] \in 0 .. MaxClock
    BY DEF TypeOK, Arrays
  <2>2. k # 0 => k \in DOMAIN tracked_files /\ tracked_files[k] \in TrackedFile
                 /\ tracked_files[k].path = p
    BY <2>1, FindsFirst DEF Arrays
  <2>3. k # 0 => Modification(tracked_files[k]) \in TrackedFile
    BY <2>1, <2>2 DEF Modification, TrackedFile
  <2>4. [path |-> p, modified_time |-> mtime[p], status |-> "CREATED"] \in TrackedFile
    BY <2>1 DEF TrackedFile
  <2>5. CASE UNCHANGED tracked_files
    BY <2>5 DEF TypeOK
  <2>6. CASE tracked_files' = Add(tracked_files, p, "CREATED")
    BY <2>4, <2>6 DEF TypeOK, Add
  <2>7. CASE k # 0 /\ tracked_files' = [tracked_files EXCEPT ![k] = Modification(@)]
    <3>. HIDE DEF k
    <3>. QED
      BY <2>2, <2>3, <2>7 DEF TypeOK
  <2>. QED
    BY <2>5, <2>6, <2>7 DEF CheckStatus
<1>2. todo' \subseteq Paths
  BY DEF TypeOK, CheckStatus
<1>. QED
  BY <1>1, <1>2 DEF TypeOK, CheckStatus, diskVars, boundVars, historyVars, Exists

LEMMA CheckDeletionTypes ==
  ASSUME TypeOK, CheckDeletion
  PROVE  TypeOK'
<1>1. tracked_files' \in Seq(TrackedFile) /\ i' \in Nat \ {0}
  <2>1. i \in Nat \ {0} /\ i' = i + 1
    BY DEF TypeOK, CheckDeletion
  <2>2. CASE UNCHANGED tracked_files
    BY <2>1, <2>2 DEF TypeOK
  <2>3. CASE tracked_files' = [tracked_files EXCEPT ![i].status = "DELETED"]
    <3>1. tracked_files \in Arrays /\ i \in DOMAIN tracked_files
      BY <2>1 DEF TypeOK, CheckDeletion, Arrays
    <3>2. [tracked_files[i] EXCEPT !.status = "DELETED"] \in TrackedFile
      BY <3>1, ArrayFacts, FieldChanged
    <3>3. tracked_files' = [tracked_files EXCEPT ![i] = [tracked_files[i] EXCEPT !.status = "DELETED"]]
      BY <2>3
    <3>. QED
      BY <2>1, <3>1, <3>2, <3>3, EntryChanged DEF Arrays
  <2>. QED
    BY <2>2, <2>3 DEF CheckDeletion, TypeOK
<1>. QED
  BY <1>1 DEF TypeOK, CheckDeletion, diskVars, boundVars, historyVars, Exists

LEMMA ReportChangeTypes ==
  ASSUME TypeOK, ReportChange
  PROVE  TypeOK'
<1>1. tracked_files \in Arrays /\ i \in DOMAIN tracked_files
  BY DEF TypeOK, ReportChange, Reporting, Arrays
<1>2. tracked_files' \in Seq(TrackedFile) /\ i' \in Nat \ {0}
  <2>1. [tracked_files[i] EXCEPT !.status = "STABLE"] \in TrackedFile
    BY <1>1, ArrayFacts, FieldChanged
  <2>2. tracked_files' = [tracked_files EXCEPT ![i] = [tracked_files[i] EXCEPT !.status = "STABLE"]]
    BY DEF ReportChange
  <2>. QED
    BY <1>1, <2>1, <2>2, EntryChanged DEF TypeOK, ReportChange, Arrays
<1>3. peer' \in [Paths -> Versions] /\ broken' \in BOOLEAN
  <2>1. 1 \in Versions
    BY BoundsAssumption DEF Versions
  <2>2. CASE broken' = TRUE /\ UNCHANGED peer
    BY <2>2 DEF TypeOK
  <2>3. CASE /\ peer' = [q \in Paths |-> IF q = tracked_files[i].path THEN content[tracked_files[i].path]
                                         ELSE IF q \in Above[tracked_files[i].path] THEN 1 ELSE peer[q]]
             /\ UNCHANGED broken
    BY <2>1, <2>3 DEF TypeOK
  <2>. QED
    BY <2>2, <2>3 DEF ReportChange
<1>. QED
  BY <1>2, <1>3 DEF TypeOK, ReportChange, diskVars, boundVars, historyVars, Exists

LEMMA ReportDeletionTypes ==
  ASSUME TypeOK, ReportDeletion
  PROVE  TypeOK'
<1>. DEFINE p == tracked_files[i].path
<1>1. tracked_files' \in Seq(TrackedFile)
  BY RemovesFirst DEF TypeOK, ReportDeletion, Arrays
<1>2. peer' \in [Paths -> Versions]
  BY BoundsAssumption DEF TypeOK, ReportDeletion, Versions
<1>3. kept' \subseteq Paths
  BY DEF TypeOK, ReportDeletion, Subtree
<1>. QED
  BY <1>1, <1>2, <1>3 DEF TypeOK, ReportDeletion, diskVars, roundVars, boundVars, Exists

LEMMA RemoteWritesTypes ==
  ASSUME TypeOK, NEW p \in Paths, RemoteWrites(p)
  PROVE  TypeOK'
<1>1. NewContent(p) \in Versions \ {0} /\ 1 \in Versions /\ remoteChanges' \in 0 .. MaxRemote
  BY BoundsAssumption DEF TypeOK, RemoteWrites, RemoteActs, NewContent, Versions
<1>2. peer' \in [Paths -> Versions]
  BY <1>1 DEF TypeOK, RemoteWrites
<1>3. CASE broken' = TRUE /\ UNCHANGED <<diskVars, applying, origin>>
  BY <1>1, <1>2, <1>3 DEF TypeOK, RemoteWrites, diskVars, roundVars, Exists
<1>4. CASE /\ content' = [q \in Paths |-> IF q = p THEN NewContent(p)
                                          ELSE IF q \in Missing(p) THEN 1 ELSE content[q]]
           /\ mtime' = [q \in Paths |-> IF q \in {p} \cup Missing(p) /\ ~(q \in Dirs /\ Exists(q))
                                        THEN clock ELSE mtime[q]]
           /\ origin' = [origin EXCEPT ![p] = "remote"]
           /\ applying' = [path |-> p, status |-> IF peer[p] = 0 THEN "CREATE" ELSE "UPDATE"]
           /\ UNCHANGED broken
  <2>1. content' \in [Paths -> Versions] /\ mtime' \in [Paths -> 0 .. MaxClock]
    BY <1>1, <1>4 DEF TypeOK
  <2>2. \A q \in Paths : Exists(q)' <=> Exists(q) \/ q = p \/ q \in Above[p]
    BY <1>1, <1>4, PathsAssumption, AboveAssumption DEF Missing, Exists
  <2>3. \A q \in Paths : Exists(q)' => \A a \in Above[q] : Exists(a)'
    <3>1. \A q \in Paths : Above[q] \subseteq Paths
      BY PathsAssumption, AboveAssumption
    <3>. QED
      BY <2>2, <3>1, AboveAssumption DEF TypeOK
  <2>4. applying' \in [path : Paths, status : {"CREATE", "UPDATE"}] /\ origin' \in [Paths -> {"user", "remote"}]
    BY <1>4 DEF TypeOK
  <2>. QED
    BY <1>1, <1>2, <1>4, <2>1, <2>3, <2>4 DEF TypeOK, RemoteWrites, roundVars, Exists
<1>. QED
  BY <1>3, <1>4 DEF RemoteWrites

LEMMA RemoteWrittenTypes ==
  ASSUME TypeOK, RemoteWritten
  PROVE  TypeOK'
<1>. DEFINE p == applying.path
            k == Find(tracked_files, p)
<1>1. p \in Paths /\ mtime[p] \in 0 .. MaxClock /\ tracked_files \in Arrays
  BY DEF TypeOK, RemoteWritten, Arrays
<1>2. tracked_files' \in Seq(TrackedFile)
  <2>1. [path |-> p, modified_time |-> mtime[p], status |-> "STABLE"] \in TrackedFile
    BY <1>1 DEF TrackedFile
  <2>2. CASE UNCHANGED tracked_files
    BY <2>2 DEF TypeOK
  <2>3. CASE tracked_files' = Add(tracked_files, p, "STABLE")
    BY <2>1, <2>3 DEF TypeOK, Add
  <2>4. CASE k # 0 /\ tracked_files' = [tracked_files EXCEPT ![k].modified_time = mtime[p]]
    <3>1. k \in DOMAIN tracked_files
      BY <1>1, <2>4, FindsFirst
    <3>2. \A entry \in TrackedFile : [entry EXCEPT !.modified_time = mtime[p]] \in TrackedFile
      BY <1>1 DEF TrackedFile
    <3>. HIDE DEF k, p
    <3>3. tracked_files' = [tracked_files EXCEPT ![k] = [@ EXCEPT !.modified_time = mtime[p]]]
      BY <2>4
    <3>. QED
      BY <3>1, <3>2, <3>3 DEF TypeOK
  <2>. QED
    BY <2>2, <2>3, <2>4 DEF RemoteWritten, Record
<1>. QED
  BY <1>2 DEF TypeOK, RemoteWritten, diskVars, roundVars, historyVars, boundVars, Exists

LEMMA RemoteRemovesTypes ==
  ASSUME TypeOK, NEW p \in Paths, RemoteRemoves(p)
  PROVE  TypeOK'
<1>. DEFINE gone == IF p \in Dirs THEN {q \in Subtree(p) : Exists(q)} ELSE {p}
<1>1. tracked_files' \in Seq(TrackedFile)
  BY Forgets DEF TypeOK, RemoteRemoves, Arrays
<1>2. /\ peer' \in [Paths -> Versions]
      /\ content' \in [Paths -> Versions]
      /\ origin' \in [Paths -> {"user", "remote"}]
      /\ kept' \subseteq Paths
      /\ remoteChanges' \in 0 .. MaxRemote
  BY BoundsAssumption DEF TypeOK, RemoteRemoves, RemoteActs, Versions, Subtree
<1>3. \A q \in Paths : Exists(q)' => \A a \in Above[q] : Exists(a)'
  <2>1. \A q \in Paths : Exists(q)' <=> Exists(q) /\ q \notin gone
    BY DEF RemoteRemoves, Exists
  <2>2. ASSUME NEW q \in Paths, Exists(q)', NEW a \in Above[q]
        PROVE  Exists(a)'
    <3>1. a \in Dirs /\ a \in Paths /\ Above[a] \subseteq Above[q] /\ Exists(a) /\ Exists(q)
      BY <2>1, <2>2, PathsAssumption, AboveAssumption DEF TypeOK
    <3>2. a \notin gone
      BY <2>1, <2>2, <3>1 DEF Subtree
    <3>. QED
      BY <2>1, <3>1, <3>2
  <2>. QED
    BY <2>2
<1>. QED
  BY <1>1, <1>2, <1>3 DEF TypeOK, RemoteRemoves, RemoteActs, roundVars, Exists

(* Array, disk and history keep their types, and what exists is in         *)
(* directories that exist, although the user removes directories while     *)
(* create_nested_directory() and remove_directory() rely on theirs         *)
(* (helpers.c:118-162, controller.c:331-364).                              *)
THEOREM TypeCorrect == Spec => []TypeOK
<1>1. TypeOK /\ [Next]_vars => TypeOK'
  <2>. SUFFICES ASSUME TypeOK, [Next]_vars PROVE TypeOK'
    OBVIOUS
  <2>1. CASE Tick \/ UNCHANGED vars
    BY <2>1, QuietTypes
  <2>2. CASE MonitorStep
    BY <2>2, QuietTypes, CheckStatusTypes, CheckDeletionTypes, ReportChangeTypes,
       ReportDeletionTypes DEF MonitorStep
  <2>3. CASE RemoteWritten
    BY <2>3, RemoteWrittenTypes
  <2>4. CASE \E p \in Paths :
               UserWrites(p) \/ UserRemoves(p) \/ RemoteWrites(p) \/ RemoteRemoves(p)
    BY <2>4, UserWritesTypes, UserRemovesTypes, RemoteWritesTypes, RemoteRemovesTypes
  <2>. QED
    BY <2>1, <2>2, <2>3, <2>4 DEF Next
<1>. QED
  BY <1>1, InitTypes, PTL DEF Spec

-----------------------------------------------------------------------------
(* The inductive invariant.                                                *)
Tracked(p) == \E j \in DOMAIN tracked_files : tracked_files[j].path = p
Regular == Paths \ (unseen \cup kept)

(* Entry j will be reported in this round.                                 *)
Pending(j) ==
  \/ /\ monitor = "scan" /\ tracked_files[j].status = "CREATED"
     /\ tracked_files[j].path \notin todo
  \/ monitor = "deletions" /\ tracked_files[j].status \in {"CREATED", "DELETED"}
  \/ monitor = "report" /\ j >= i /\ tracked_files[j].status # "STABLE"

(* The other side has every tracked path, or will be told in this round.   *)
Known ==
  ~broken => \A j \in DOMAIN tracked_files :
    LET p == tracked_files[j].path IN p \in kept \/ peer[p] # 0 \/ Pending(j)

(* While a change is applied no round goes on; the other side has the path,*)
(* nobody but the user can have removed it here, and a CREATE finds no     *)
(* entry of it.                                                            *)
Applied ==
  applying # Idle =>
    LET p == applying.path IN
    /\ monitor = "idle"
    /\ peer[p] # 0
    /\ Exists(p) \/ p \in unseen
    /\ p \in Dirs => applying.status = "CREATE"
    /\ applying.status = "CREATE" => p \in kept \/ ~Tracked(p)

(* What was reported, or passed, is STABLE.                                *)
Quiet ==
  \A j \in DOMAIN tracked_files :
    monitor = "idle" \/ (monitor = "report" /\ j < i) =>
      tracked_files[j].path \in kept \/ tracked_files[j].status = "STABLE"

(* A file of the other side is tracked here, or about to be.               *)
FilesTracked ==
  \A p \in Regular \cap Files :
    peer[p] # 0 => Tracked(p) \/ applying = [path |-> p, status |-> "CREATE"]

(* What the other side removed last it does not have.                      *)
RemoteGone ==
  ~broken => \A p \in Paths : origin[p] = "remote" /\ ~Exists(p) => peer[p] = 0

(* What the other side changed last is recorded as it is.                  *)
Recorded ==
  \A p \in Regular :
    origin[p] = "remote" /\ applying.path # p =>
      /\ Exists(p) <=> Tracked(p)
      /\ \A j \in DOMAIN tracked_files :
           tracked_files[j].path = p =>
             /\ tracked_files[j].status = "STABLE"
             /\ p \in Files => mtime[p] <= tracked_files[j].modified_time

Formed ==
  TrackedOnce /\ Known /\ Applied /\ Quiet /\ FilesTracked /\ RemoteGone /\ Recorded

LEMMA ArrayTypes ==
  ASSUME TypeOK
  PROVE  /\ tracked_files \in Arrays
         /\ i \in Nat \ {0}
         /\ Len(tracked_files) \in Nat /\ DOMAIN tracked_files = 1 .. Len(tracked_files)
         /\ \A j \in DOMAIN tracked_files : tracked_files[j].path \in Paths
BY ArrayFacts DEF TypeOK, Arrays

LEMMA InitFormed == Init => Formed
<1>. SUFFICES ASSUME Init PROVE Formed
  OBVIOUS
<1>1. DOMAIN tracked_files = {} /\ Len(tracked_files) = 0
  BY DEF Init
<1>2. TrackedOnce /\ Known /\ Applied /\ Quiet
  BY <1>1 DEF Init, TrackedOnce, Known, Applied, Quiet
<1>3. FilesTracked /\ RemoteGone /\ Recorded
  BY <1>1 DEF Init, FilesTracked, RemoteGone, Recorded, Regular, Files
<1>. QED
  BY <1>2, <1>3 DEF Formed

(* Steps that leave array, peer and remote change alone.                   *)
LEMMA TickFormed ==
  ASSUME TypeOK, Formed, Tick \/ UNCHANGED vars
  PROVE  Formed'
BY DEF Formed, TrackedOnce, Known, Applied, Quiet, FilesTracked, RemoteGone, Recorded,
   Regular, Tracked, Pending, Exists, Tick, vars, roundVars, diskVars, boundVars, historyVars

LEMMA UserWritesFormed ==
  ASSUME TypeOK, Formed, NEW p \in Paths, UserWrites(p)
  PROVE  Formed'
<1>1. /\ UNCHANGED <<tracked_files, peer, applying, kept, broken, monitor, todo, i>>
      /\ unseen \subseteq unseen' /\ (applying.path = p => p \in unseen')
      /\ content' = [content EXCEPT ![p] = NewContent(p)]
      /\ mtime' = [mtime EXCEPT ![p] = clock]
      /\ origin' = [origin EXCEPT ![p] = "user"]
  BY DEF UserWrites, UserActs, roundVars
<1>2. TrackedOnce' /\ Known' /\ Quiet'
  BY <1>1 DEF Formed, TrackedOnce, Known, Quiet, Pending
<1>3. Applied'
  BY <1>1 DEF Formed, Applied, Tracked, Exists, TypeOK
<1>4. FilesTracked'
  BY <1>1 DEF Formed, FilesTracked, Regular, Tracked
<1>5. RemoteGone'
  BY <1>1 DEF Formed, RemoteGone, Exists, TypeOK
<1>6. Recorded'
  BY <1>1 DEF Formed, Recorded, Regular, Tracked, Exists, TypeOK
<1>. QED
  BY <1>2, <1>3, <1>4, <1>5, <1>6 DEF Formed

LEMMA UserRemovesFormed ==
  ASSUME TypeOK, Formed, NEW p \in Paths, UserRemoves(p)
  PROVE  Formed'
<1>1. /\ UNCHANGED <<tracked_files, peer, applying, kept, broken, monitor, todo, i, mtime>>
      /\ unseen \subseteq unseen' /\ (applying.path = p => p \in unseen')
      /\ content' = [content EXCEPT ![p] = 0]
      /\ origin' = [origin EXCEPT ![p] = "user"]
  BY DEF UserRemoves, UserActs, roundVars
<1>2. TrackedOnce' /\ Known' /\ Quiet'
  BY <1>1 DEF Formed, TrackedOnce, Known, Quiet, Pending
<1>3. Applied'
  BY <1>1 DEF Formed, Applied, Tracked, Exists, TypeOK
<1>4. FilesTracked'
  BY <1>1 DEF Formed, FilesTracked, Regular, Tracked
<1>5. RemoteGone'
  BY <1>1 DEF Formed, RemoteGone, Exists, TypeOK
<1>6. Recorded'
  BY <1>1 DEF Formed, Recorded, Regular, Tracked, Exists, TypeOK
<1>. QED
  BY <1>2, <1>3, <1>4, <1>5, <1>6 DEF Formed

-----------------------------------------------------------------------------
(* A round.                                                                *)
LEMMA RoundFormed ==
  ASSUME TypeOK, Formed,
         StartRound \/ StartDeletions \/ StartReports \/ SkipStable \/ EndRound
  PROVE  Formed'
<1>1. UNCHANGED <<tracked_files, peer, applying, kept, broken, unseen, content, mtime, origin>>
  BY DEF StartRound, StartDeletions, StartReports, SkipStable, EndRound, diskVars, historyVars
<1>2. TrackedOnce' /\ FilesTracked' /\ RemoteGone' /\ Recorded'
  BY <1>1 DEF Formed, TrackedOnce, FilesTracked, RemoteGone, Recorded, Regular, Tracked, Exists
<1>3. Applied'
  BY <1>1 DEF Formed, Applied, Tracked, Exists, StartRound, StartDeletions, StartReports,
     SkipStable, EndRound, Reporting
<1>4. Quiet'
  <2>1. CASE StartRound \/ StartDeletions \/ StartReports
    BY <1>1, <2>1, ArrayTypes DEF StartRound, StartDeletions, StartReports, Quiet
  <2>2. CASE SkipStable
    BY <1>1, <2>2, ArrayTypes DEF SkipStable, Reporting, Formed, Quiet
  <2>3. CASE EndRound
    BY <1>1, <2>3, ArrayTypes DEF EndRound, Formed, Quiet
  <2>. QED
    BY <2>1, <2>2, <2>3
<1>5. Known'
  <2>1. CASE StartRound \/ StartDeletions \/ StartReports
    BY <1>1, <2>1, ArrayTypes DEF StartRound, StartDeletions, StartReports, Formed, Known, Pending
  <2>2. CASE SkipStable
    BY <1>1, <2>2, ArrayTypes DEF SkipStable, Reporting, Formed, Known, Pending
  <2>3. CASE EndRound
    BY <1>1, <2>3, ArrayTypes DEF EndRound, Formed, Known, Pending
  <2>. QED
    BY <2>1, <2>2, <2>3
<1>. QED
  BY <1>2, <1>3, <1>4, <1>5 DEF Formed

(* No change of the other side is under way in a round.                    *)
LEMMA RoundAlone ==
  ASSUME TypeOK, Formed, monitor # "idle"
  PROVE  applying = Idle /\ \A p \in Paths : applying.path # p
BY PathsAssumption DEF Formed, Applied, Idle

LEMMA CheckStatusFormed ==
  ASSUME TypeOK, Formed, NEW p \in Paths, CheckStatus(p)
  PROVE  Formed'
<1>. DEFINE k == Find(tracked_files, p)
            t == tracked_files
            u == tracked_files'
<1>1. /\ UNCHANGED <<peer, applying, kept, broken, unseen, content, mtime, origin, monitor, i>>
      /\ monitor = "scan" /\ p \in todo /\ todo' \subseteq todo
      /\ Exists(p) => p \notin todo'
  BY DEF CheckStatus, diskVars, historyVars
<1>2. applying = Idle /\ \A q \in Paths : applying.path # q
  BY RoundAlone DEF CheckStatus
<1>3. Applied' /\ RemoteGone' /\ Quiet'
  BY <1>1, <1>2 DEF Formed, Applied, RemoteGone, Quiet, Exists, CheckStatus
<1>4. CASE UNCHANGED tracked_files
  <2>1. TrackedOnce' /\ FilesTracked' /\ Recorded'
    BY <1>1, <1>4 DEF Formed, TrackedOnce, FilesTracked, Recorded, Regular, Tracked, Exists
  <2>2. Known'
    BY <1>1, <1>4 DEF CheckStatus, Formed, Known, Pending
  <2>. QED
    BY <1>3, <2>1, <2>2 DEF Formed
<1>5. CASE Exists(p) /\ k = 0 /\ u = Add(t, p, "CREATED")
  <2>. DEFINE e == [path |-> p, modified_time |-> mtime[p], status |-> "CREATED"]
  <2>1. t \in Arrays /\ DOMAIN t = 1 .. Len(t) /\ Len(t) \in Nat
    BY ArrayTypes
  <2>2. e \in TrackedFile /\ e.path = p /\ e.status = "CREATED"
    BY DEF TypeOK, TrackedFile
  <2>3. /\ DOMAIN u = DOMAIN t \cup {Len(t) + 1}
        /\ Len(t) + 1 \notin DOMAIN t
        /\ Len(u) = Len(t) + 1
        /\ \A j \in DOMAIN t : u[j] = t[j]
        /\ u[Len(t) + 1] = e
    BY <1>5, <2>1, <2>2, EntryAppended DEF Add
  <2>4. \A j \in DOMAIN t : t[j].path # p
    BY <1>5, <2>1, FindsFirst
  <2>5. ~Tracked(p) /\ \A q \in Paths : Tracked(q)' <=> Tracked(q) \/ q = p
    BY <2>2, <2>3, <2>4 DEF Tracked
  <2>. HIDE DEF e
  <2>6. TrackedOnce'
    <3>1. DOMAIN u = 1 .. Len(u)
      BY <2>1, <2>3
    <3>. QED
      BY <1>1, <2>1, <2>2, <2>3, <2>4, <3>1 DEF Formed, TrackedOnce
  <2>7. FilesTracked'
    BY <1>1, <2>5 DEF Formed, FilesTracked, Regular
  <2>8. Recorded'
    <3>1. p \notin Regular \/ origin[p] # "remote"
      BY <1>2, <1>5, <2>5 DEF Formed, Recorded
    <3>. QED
      BY <1>1, <2>2, <2>3, <2>5, <3>1 DEF Formed, Recorded, Regular, Exists
  <2>9. Known'
    <3>1. p \notin todo' /\ monitor' = "scan"
      BY <1>1, <1>5
    <3>2. \A j \in DOMAIN t : Pending(j) => Pending(j)'
      BY <1>1, <2>3 DEF Pending, CheckStatus
    <3>3. ASSUME NEW j \in DOMAIN u, j = Len(t) + 1
          PROVE  Pending(j)'
      BY <2>2, <2>3, <3>1, <3>3 DEF Pending
    <3>. QED
      BY <1>1, <2>3, <3>2, <3>3 DEF Formed, Known
  <2>. QED
    BY <1>3, <2>6, <2>7, <2>8, <2>9 DEF Formed
<1>6. CASE Exists(p) /\ k # 0 /\ u = [t EXCEPT ![k] = Modification(@)]
  <2>. DEFINE e == Modification(t[k])
  <2>1. /\ t \in Arrays /\ DOMAIN t = 1 .. Len(t) /\ Len(t) \in Nat
        /\ k \in DOMAIN t /\ t[k] \in TrackedFile /\ t[k].path = p
    BY <1>6, ArrayTypes, FindsFirst, ArrayFacts
  <2>2. mtime[p] \in 0 .. MaxClock
    BY DEF TypeOK
  <2>3. /\ e \in TrackedFile /\ e.path = p
        /\ p \in Dirs => e = t[k]
        /\ p \notin Dirs /\ mtime[p] <= t[k].modified_time =>
             e.status = "STABLE" /\ e.modified_time = t[k].modified_time
    <3>. DEFINE old == t[k]
    <3>1. old \in TrackedFile /\ old.path = p /\ old.modified_time \in 0 .. MaxClock
      BY <2>1 DEF TrackedFile
    <3>2. e = IF p \in Dirs THEN old
              ELSE IF mtime[p] > old.modified_time
              THEN [old EXCEPT !.status = "UPDATED", !.modified_time = mtime[p]]
              ELSE [old EXCEPT !.status = "STABLE"]
      BY <3>1 DEF Modification, Newer
    <3>. HIDE DEF old, e
    <3>3. [old EXCEPT !.status = "UPDATED", !.modified_time = mtime[p]] \in TrackedFile
          /\ [old EXCEPT !.status = "UPDATED", !.modified_time = mtime[p]].path = p
      BY <2>2, <3>1 DEF TrackedFile
    <3>4. /\ [old EXCEPT !.status = "STABLE"] \in TrackedFile
          /\ [old EXCEPT !.status = "STABLE"].path = p
          /\ [old EXCEPT !.status = "STABLE"].status = "STABLE"
          /\ [old EXCEPT !.status = "STABLE"].modified_time = old.modified_time
      BY <3>1 DEF TrackedFile
    <3>5. mtime[p] <= old.modified_time => ~(mtime[p] > old.modified_time)
      BY <2>2, <3>1, BoundsAssumption
    <3>6. e \in TrackedFile /\ e.path = p
      BY <3>1, <3>2, <3>3, <3>4
    <3>7. p \in Dirs => e = old
      BY <3>2
    <3>8. p \notin Dirs /\ mtime[p] <= old.modified_time =>
            e.status = "STABLE" /\ e.modified_time = old.modified_time
      BY <3>2, <3>4, <3>5
    <3>. QED
      BY <3>6, <3>7, <3>8 DEF old
  <2>4. u = [t EXCEPT ![k] = e]
    BY <1>6
  <2>. HIDE DEF e, k
  <2>5. DOMAIN u = DOMAIN t /\ Len(u) = Len(t) /\ \A j \in DOMAIN t : u[j] = IF j = k THEN e ELSE t[j]
    BY <2>1, <2>3, <2>4, EntryChanged
  <2>6. \A j \in DOMAIN t : u[j].path = t[j].path
    BY <2>1, <2>3, <2>5
  <2>7. \A q \in Paths : Tracked(q)' <=> Tracked(q)
    BY <2>5, <2>6 DEF Tracked
  <2>8. TrackedOnce'
    BY <1>1, <2>1, <2>5, <2>6 DEF Formed, TrackedOnce
  <2>9. FilesTracked'
    BY <1>1, <2>7 DEF Formed, FilesTracked, Regular
  <2>10. Recorded'
    <3>1. \A q \in Paths \ {p} : \A j \in DOMAIN t : t[j].path = q => u[j] = t[j]
      BY <2>1, <2>5
    <3>2. ASSUME NEW q \in Regular, origin[q] = "remote", NEW j \in DOMAIN u, u[j].path = q
          PROVE  u[j].status = "STABLE" /\ (q \in Files => mtime[q] <= u[j].modified_time)
      <4>1. t[j].path = q /\ t[j].status = "STABLE" /\ (q \in Files => mtime[q] <= t[j].modified_time)
        BY <1>2, <2>5, <2>6, <3>2 DEF Formed, Recorded, Regular
      <4>2. CASE j # k
        BY <2>5, <4>1, <4>2
      <4>3. CASE j = k
        BY <2>1, <2>3, <2>5, <4>1, <4>3 DEF Files, Regular
      <4>. QED
        BY <4>2, <4>3
    <3>. QED
      BY <1>1, <1>2, <2>5, <2>7, <3>2 DEF Formed, Recorded, Regular, Exists
  <2>11. Known'
    <3>1. \A j \in DOMAIN t : j # k /\ Pending(j) => Pending(j)'
      BY <1>1, <2>5 DEF Pending, CheckStatus
    <3>2. ~Pending(k)
      BY <2>1 DEF Pending, CheckStatus
    <3>. QED
      BY <1>1, <2>1, <2>5, <2>6, <3>1, <3>2 DEF Formed, Known
  <2>. QED
    BY <1>3, <2>8, <2>9, <2>10, <2>11 DEF Formed
<1>. QED
  BY <1>4, <1>5, <1>6 DEF CheckStatus

LEMMA CheckDeletionFormed ==
  ASSUME TypeOK, Formed, CheckDeletion
  PROVE  Formed'
<1>. DEFINE t == tracked_files
            u == tracked_files'
            p == tracked_files[i].path
<1>1. /\ UNCHANGED <<peer, applying, kept, broken, unseen, content, mtime, origin, monitor, todo>>
      /\ monitor = "deletions" /\ i \in DOMAIN t
      /\ t \in Arrays /\ DOMAIN t = 1 .. Len(t)
  BY ArrayTypes DEF CheckDeletion, diskVars, historyVars
<1>2. applying = Idle /\ \A q \in Paths : applying.path # q
  BY RoundAlone DEF CheckDeletion
<1>3. Applied' /\ RemoteGone' /\ Quiet'
  BY <1>1, <1>2 DEF Formed, Applied, RemoteGone, Quiet, Exists
<1>4. CASE UNCHANGED tracked_files
  BY <1>1, <1>3, <1>4 DEF Formed, TrackedOnce, FilesTracked, Recorded, Regular, Tracked, Exists,
     Known, Pending
<1>5. CASE ~Exists(p) /\ u = [t EXCEPT ![i].status = "DELETED"]
  <2>. DEFINE e == [t[i] EXCEPT !.status = "DELETED"]
  <2>1. t[i] \in TrackedFile /\ p \in Paths
    BY <1>1, ArrayFacts
  <2>2. e \in TrackedFile /\ e.path = p /\ e.status = "DELETED"
    BY <2>1 DEF TrackedFile
  <2>3. u = [t EXCEPT ![i] = e]
    BY <1>5
  <2>. HIDE DEF e
  <2>4. DOMAIN u = DOMAIN t /\ Len(u) = Len(t) /\ \A j \in DOMAIN t : u[j] = IF j = i THEN e ELSE t[j]
    BY <1>1, <2>2, <2>3, EntryChanged
  <2>5. \A j \in DOMAIN t : u[j].path = t[j].path
    BY <2>2, <2>4
  <2>6. \A q \in Paths : Tracked(q)' <=> Tracked(q)
    BY <2>4, <2>5 DEF Tracked
  <2>7. TrackedOnce'
    BY <1>1, <2>4, <2>5 DEF Formed, TrackedOnce
  <2>8. FilesTracked'
    BY <1>1, <2>6 DEF Formed, FilesTracked, Regular
  <2>9. Recorded'
    <3>1. p \notin Regular \/ origin[p] # "remote"
      BY <1>1, <1>2, <1>5, <2>1 DEF Formed, Recorded, Tracked
    <3>2. \A j \in DOMAIN t : t[j].path # p => u[j] = t[j]
      BY <2>4
    <3>. QED
      BY <1>1, <2>4, <2>5, <2>6, <3>1, <3>2 DEF Formed, Recorded, Regular, Exists
  <2>10. Known'
    <3>1. \A j \in DOMAIN t : Pending(j) => Pending(j)'
      BY <1>1, <2>2, <2>4 DEF Pending
    <3>. QED
      BY <1>1, <2>4, <2>5, <3>1 DEF Formed, Known
  <2>. QED
    BY <1>3, <2>7, <2>8, <2>9, <2>10 DEF Formed
<1>. QED
  BY <1>4, <1>5 DEF CheckDeletion

LEMMA ReportChangeFormed ==
  ASSUME TypeOK, Formed, ReportChange
  PROVE  Formed'
<1>. DEFINE t == tracked_files
            u == tracked_files'
            p == tracked_files[i].path
            e == [t[i] EXCEPT !.status = "STABLE"]
<1>1. /\ UNCHANGED <<applying, kept, unseen, content, mtime, origin, monitor, todo>>
      /\ monitor = "report" /\ i \in DOMAIN t /\ i' = i + 1
      /\ t \in Arrays /\ DOMAIN t = 1 .. Len(t) /\ i \in Nat
      /\ t[i].status # "STABLE"
  BY ArrayTypes DEF ReportChange, Reporting, diskVars, historyVars
<1>2. applying = Idle /\ \A q \in Paths : applying.path # q
  BY <1>1, RoundAlone
<1>3. t[i] \in TrackedFile /\ p \in Paths
  BY <1>1, ArrayFacts
<1>4. e \in TrackedFile /\ e.path = p /\ e.status = "STABLE"
  BY <1>3 DEF TrackedFile
<1>5. u = [t EXCEPT ![i] = e]
  BY DEF ReportChange
<1>6. /\ DOMAIN u = DOMAIN t /\ Len(u) = Len(t)
      /\ \A j \in DOMAIN t : u[j] = IF j = i THEN e ELSE t[j]
  BY <1>1, <1>4, <1>5, EntryChanged
<1>7. /\ \A q \in Paths : peer[q] # 0 => peer'[q] # 0
      /\ \A q \in Paths : ~Exists(q) => peer'[q] = peer[q]
      /\ peer'[p] # 0 \/ broken'
      /\ broken => broken'
      /\ \A q \in Paths \cap Files : q # p => peer'[q] = peer[q]
  <2>1. CASE broken' = TRUE /\ UNCHANGED peer
    BY <2>1
  <2>2. CASE /\ Exists(p)
             /\ peer' = [q \in Paths |-> IF q = p THEN content[p]
                                         ELSE IF q \in Above[p] THEN 1 ELSE peer[q]]
             /\ UNCHANGED broken
    BY <1>3, <2>2, AboveAssumption DEF TypeOK, Exists, Files
  <2>. QED
    BY <2>1, <2>2 DEF ReportChange
<1>. HIDE DEF e
<1>8. \A j \in DOMAIN t : u[j].path = t[j].path
  BY <1>4, <1>6
<1>9. \A q \in Paths : Tracked(q)' <=> Tracked(q)
  BY <1>6, <1>8 DEF Tracked
<1>10. TrackedOnce'
  BY <1>1, <1>6, <1>8 DEF Formed, TrackedOnce
<1>11. Applied'
  BY <1>1, <1>2 DEF Applied
<1>12. Quiet'
  BY <1>1, <1>4, <1>6 DEF Formed, Quiet
<1>13. FilesTracked'
  <2>1. Tracked(p)
    BY <1>1 DEF Tracked
  <2>. QED
    BY <1>1, <1>7, <1>9, <2>1 DEF Formed, FilesTracked, Regular, Files
<1>14. RemoteGone'
  BY <1>1, <1>7 DEF Formed, RemoteGone, Exists
<1>15. Recorded'
  <2>1. p \notin Regular \/ origin[p] # "remote"
    BY <1>1, <1>2, <1>3 DEF Formed, Recorded
  <2>2. \A j \in DOMAIN t : t[j].path # p => u[j] = t[j]
    BY <1>6
  <2>. QED
    BY <1>1, <1>6, <1>8, <1>9, <2>1, <2>2 DEF Formed, Recorded, Regular, Exists
<1>16. Known'
  <2>1. \A j \in DOMAIN t : j # i /\ Pending(j) => Pending(j)'
    BY <1>1, <1>6 DEF Pending
  <2>2. \A j \in DOMAIN t : t[j].path \in Paths
    BY ArrayTypes
  <2>. QED
    BY <1>1, <1>6, <1>7, <1>8, <2>1, <2>2 DEF Formed, Known
<1>. QED
  BY <1>10, <1>11, <1>12, <1>13, <1>14, <1>15, <1>16 DEF Formed

LEMMA ReportDeletionFormed ==
  ASSUME TypeOK, Formed, ReportDeletion
  PROVE  Formed'
<1>. DEFINE t == tracked_files
            u == tracked_files'
            p == tracked_files[i].path
            k == Find(tracked_files, p)
<1>1. /\ UNCHANGED <<applying, broken, unseen, content, mtime, origin, monitor, todo, i>>
      /\ monitor = "report" /\ i \in DOMAIN t /\ t[i].status = "DELETED"
      /\ t \in Arrays /\ DOMAIN t = 1 .. Len(t) /\ Len(t) \in Nat /\ i \in Nat
      /\ p \in Paths
  BY ArrayTypes DEF ReportDeletion, Reporting, diskVars, roundVars
<1>2. applying = Idle /\ \A q \in Paths : applying.path # q
  BY <1>1, RoundAlone
<1>3. k \in 1 .. i /\ t[k].path = p /\ (p \notin kept => k = i)
  <2>1. k \in DOMAIN t /\ t[k].path = p /\ \A j \in 1 .. k - 1 : t[j].path # p
    BY <1>1, FindsFirst
  <2>2. k <= i
    BY <1>1, <2>1
  <2>. QED
    BY <1>1, <2>1, <2>2 DEF Formed, TrackedOnce
<1>4. /\ u \in Arrays /\ Len(u) = Len(t) - 1 /\ DOMAIN u = 1 .. Len(u)
      /\ \A j \in DOMAIN u : u[j] = t[IF j < k THEN j ELSE j + 1]
  <2>1. u = RemoveTracked(t, p)
    BY DEF ReportDeletion
  <2>2. k # 0
    BY <1>1, <1>3
  <2>3. u \in Arrays /\ Len(u) = Len(t) - 1
        /\ \A j \in DOMAIN u : u[j] = t[IF j < k THEN j ELSE j + 1]
    BY <1>1, <2>1, <2>2, RemovesFirst
  <2>. QED
    BY <2>3, ArrayFacts
<1>5. /\ \A q \in Paths : q \in Subtree(p) => peer'[q] = 0
      /\ \A q \in Paths : q \notin Subtree(p) => peer'[q] = peer[q]
      /\ kept \subseteq kept'
      /\ \A j \in DOMAIN t : t[j].path \in Subtree(p) \ {p} /\ (j < i \/ t[j].status = "STABLE")
                               => t[j].path \in kept'
      /\ p \in Subtree(p)
  BY <1>1 DEF ReportDeletion, Subtree
<1>. HIDE DEF k
<1>6. \A j \in DOMAIN u :
        LET o == IF j < k THEN j ELSE j + 1
        IN  o \in DOMAIN t /\ o # k /\ u[j] = t[o]
  BY <1>1, <1>3, <1>4
<1>7. \A o \in DOMAIN t : o # k => \E j \in DOMAIN u : u[j] = t[o]
  <2>. SUFFICES ASSUME NEW o \in DOMAIN t, o # k
                PROVE  \E j \in DOMAIN u : u[j] = t[o]
    OBVIOUS
  <2>1. CASE o < k
    BY <1>1, <1>3, <1>4, <2>1
  <2>2. CASE o > k
    <3>1. o - 1 \in DOMAIN u /\ ~(o - 1 < k) /\ (o - 1) + 1 = o
      BY <1>1, <1>3, <1>4, <2>2
    <3>. QED
      BY <1>4, <3>1
  <2>. QED
    BY <1>1, <1>3, <2>1, <2>2
<1>8. \A q \in Paths : Tracked(q)' => Tracked(q)
  BY <1>6 DEF Tracked
<1>9. \A q \in Paths : q # p /\ Tracked(q) => Tracked(q)'
  BY <1>3, <1>7 DEF Tracked
<1>10. TrackedOnce'
  <2>1. ASSUME NEW j \in DOMAIN u, NEW l \in DOMAIN u, u[j].path = u[l].path, j # l
        PROVE  u[j].path \in kept'
    <3>. DEFINE a == IF j < k THEN j ELSE j + 1
                b == IF l < k THEN l ELSE l + 1
    <3>1. a \in DOMAIN t /\ b \in DOMAIN t /\ u[j] = t[a] /\ u[l] = t[b]
      BY <1>6
    <3>2. a # b
      BY <1>1, <1>3, <1>4, <2>1
    <3>. HIDE DEF a, b
    <3>. QED
      BY <1>1, <1>5, <2>1, <3>1, <3>2 DEF Formed, TrackedOnce
  <2>. QED
    BY <1>4, <2>1 DEF TrackedOnce
<1>11. Applied'
  BY <1>1, <1>2 DEF Applied
<1>12. Quiet'
  <2>1. ASSUME NEW j \in DOMAIN u, j < i
        PROVE  u[j].path \in kept' \/ u[j].status = "STABLE"
    <3>. DEFINE o == IF j < k THEN j ELSE j + 1
    <3>1. o \in DOMAIN t /\ o # k /\ u[j] = t[o]
      BY <1>6
    <3>2. o < i \/ (o = i /\ k # i)
      BY <1>1, <1>3, <1>4, <2>1
    <3>. HIDE DEF o
    <3>. QED
      BY <1>1, <1>3, <1>5, <3>1, <3>2 DEF Formed, Quiet
  <2>. QED
    BY <1>1, <2>1 DEF Quiet
<1>13. Known'
  <2>. SUFFICES ASSUME ~broken, NEW j \in DOMAIN u
                PROVE  u[j].path \in kept' \/ peer'[u[j].path] # 0 \/ Pending(j)'
    BY <1>1 DEF Known
  <2>. DEFINE o == IF j < k THEN j ELSE j + 1
              q == t[o].path
  <2>1. o \in DOMAIN t /\ o # k /\ u[j] = t[o] /\ q \in Paths
    BY <1>6, ArrayTypes
  <2>2. o > i => j >= i
    BY <1>1, <1>3, <1>4
  <2>. HIDE DEF o
  <2>3. o = i => p \in kept
    BY <1>3, <2>1
  <2>4. q = p => p \in kept
    BY <1>1, <1>3, <2>1 DEF Formed, TrackedOnce
  <2>5. q \in kept \/ peer[q] # 0 \/ (o >= i /\ t[o].status # "STABLE")
    BY <1>1, <2>1 DEF Formed, Known, Pending
  <2>6. CASE q \in kept \/ q = p
    BY <1>5, <2>1, <2>4, <2>6
  <2>7. CASE o > i /\ t[o].status # "STABLE"
    <3>1. Pending(j)'
      BY <1>1, <2>1, <2>2, <2>7 DEF Pending
    <3>. QED
      BY <3>1
  <2>8. CASE q # p /\ peer[q] # 0 /\ (o < i \/ t[o].status = "STABLE")
    BY <1>5, <2>1, <2>8
  <2>9. o < i \/ o = i \/ o > i
    BY <1>1, <2>1
  <2>. QED
    BY <2>1, <2>3, <2>4, <2>5, <2>6, <2>7, <2>8, <2>9, <1>1, <1>5
<1>14. FilesTracked'
  BY <1>1, <1>5, <1>9 DEF Formed, FilesTracked, Regular
<1>15. RemoteGone'
  BY <1>1, <1>5 DEF Formed, RemoteGone, Exists
<1>16. Recorded'
  <2>1. p \notin Regular \/ origin[p] # "remote"
    BY <1>1, <1>2 DEF Formed, Recorded
  <2>2. Regular' \subseteq Regular
    BY <1>1, <1>5 DEF Regular
  <2>. QED
    BY <1>1, <1>2, <1>6, <1>8, <1>9, <2>1, <2>2 DEF Formed, Recorded, Regular, Exists
<1>. QED
  BY <1>10, <1>11, <1>12, <1>13, <1>14, <1>15, <1>16 DEF Formed

-----------------------------------------------------------------------------
(* The changes of the other side.                                          *)
LEMMA RemoteWritesFormed ==
  ASSUME TypeOK, Formed, NEW p \in Paths, RemoteWrites(p)
  PROVE  Formed'
<1>1. /\ UNCHANGED <<tracked_files, monitor, todo, i, unseen, kept>>
      /\ monitor = "idle" /\ applying = Idle /\ ~broken
      /\ \A a \in Above[p] : peer[a] # 0
      /\ p \in Dirs => peer[p] = 0
      /\ peer' = [peer EXCEPT ![p] = NewContent(p)]
      /\ NewContent(p) # 0
  BY BoundsAssumption DEF RemoteWrites, RemoteActs, roundVars, NewContent, TypeOK
<1>2. /\ peer'[p] # 0 /\ \A q \in Paths : q # p => peer'[q] = peer[q]
      /\ \A q \in Paths : applying.path # q
  BY <1>1, PathsAssumption DEF TypeOK, Idle
<1>3. TrackedOnce' /\ Quiet'
  BY <1>1 DEF Formed, TrackedOnce, Quiet
<1>4. \A j \in DOMAIN tracked_files : tracked_files[j].path \in kept \/ peer[tracked_files[j].path] # 0
  BY <1>1 DEF Formed, Known, Pending
<1>5. CASE p \in Dirs /\ broken' = TRUE /\ UNCHANGED <<diskVars, applying, origin>>
  <2>1. Known' /\ RemoteGone'
    BY <1>5 DEF Known, RemoteGone
  <2>2. Applied'
    BY <1>1, <1>5 DEF Applied
  <2>3. FilesTracked'
    BY <1>1, <1>2, <1>5 DEF Formed, FilesTracked, Regular, Tracked, Files
  <2>4. Recorded'
    BY <1>1, <1>5 DEF Formed, Recorded, Regular, Tracked, Exists, diskVars
  <2>. QED
    BY <1>3, <2>1, <2>2, <2>3, <2>4 DEF Formed
<1>6. CASE /\ content' = [q \in Paths |-> IF q = p THEN NewContent(p)
                                          ELSE IF q \in Missing(p) THEN 1 ELSE content[q]]
           /\ mtime' = [q \in Paths |-> IF q \in {p} \cup Missing(p) /\ ~(q \in Dirs /\ Exists(q))
                                        THEN clock ELSE mtime[q]]
           /\ origin' = [origin EXCEPT ![p] = "remote"]
           /\ applying' = [path |-> p, status |-> IF peer[p] = 0 THEN "CREATE" ELSE "UPDATE"]
           /\ UNCHANGED broken
  <2>1. applying'.path = p /\ applying'.status = IF peer[p] = 0 THEN "CREATE" ELSE "UPDATE"
    BY <1>6
  <2>2. Exists(p)' /\ \A q \in Paths : Exists(q) => Exists(q)'
    BY <1>1, <1>6 DEF Exists
  <2>3. Known'
    <3>1. \A j \in DOMAIN tracked_files : tracked_files[j].path \in Paths
      BY ArrayTypes
    <3>. QED
      BY <1>1, <1>2, <1>4, <3>1 DEF Known
  <2>4. Applied'
    <3>1. peer[p] = 0 => p \in kept \/ ~Tracked(p)
      BY <1>4 DEF Tracked
    <3>2. peer[p] = 0 => p \in kept' \/ ~Tracked(p)'
      BY <1>1, <3>1 DEF Tracked
    <3>. QED
      BY <1>1, <1>2, <2>1, <2>2, <3>2 DEF Applied
  <2>5. FilesTracked'
    <3>1. ASSUME NEW q \in Regular' \cap Files, peer'[q] # 0
          PROVE  Tracked(q)' \/ applying' = [path |-> q, status |-> "CREATE"]
      <4>1. q \in Regular \cap Files /\ q \in Paths
        BY <1>1, <3>1 DEF Regular
      <4>2. CASE peer[q] # 0
        BY <1>1, <1>2, <4>1, <4>2 DEF Formed, FilesTracked, Tracked
      <4>3. CASE peer[q] = 0
        BY <1>2, <1>6, <3>1, <4>1, <4>3
      <4>. QED
        BY <4>2, <4>3
    <3>. QED
      BY <3>1 DEF FilesTracked
  <2>6. RemoteGone'
    <3>1. \A q \in Paths : q # p => origin'[q] = origin[q]
      BY <1>6 DEF TypeOK
    <3>. QED
      BY <1>1, <1>2, <2>2, <3>1 DEF Formed, RemoteGone
  <2>7. Recorded'
    <3>1. ASSUME NEW q \in Regular', origin'[q] = "remote", q # p
          PROVE  /\ q \in Regular /\ q \in Paths /\ origin[q] = "remote" /\ applying.path # q
                 /\ (Exists(q)' <=> Exists(q)) /\ mtime'[q] = mtime[q]
      <4>1. q \in Regular /\ q \in Paths /\ origin[q] = "remote" /\ applying.path # q
        BY <1>1, <1>2, <1>6, <3>1 DEF Regular, TypeOK
      <4>2. q \notin Missing(p)
        BY <1>1, <4>1 DEF Formed, RemoteGone, Missing
      <4>. QED
        BY <1>6, <3>1, <4>1, <4>2 DEF Exists
    <3>. QED
      BY <1>1, <2>1, <3>1 DEF Formed, Recorded, Tracked
  <2>. QED
    BY <1>3, <2>3, <2>4, <2>5, <2>6, <2>7 DEF Formed
<1>. QED
  BY <1>5, <1>6 DEF RemoteWrites

LEMMA RemoteWrittenFormed ==
  ASSUME TypeOK, Formed, RemoteWritten
  PROVE  Formed'
<1>. DEFINE t == tracked_files
            u == tracked_files'
            p == applying.path
            k == Find(tracked_files, p)
<1>1. /\ UNCHANGED <<peer, broken, unseen, kept, content, mtime, origin, monitor, todo, i>>
      /\ applying # Idle /\ applying' = Idle
      /\ Record(p, applying.status)
  BY DEF RemoteWritten, diskVars, roundVars, historyVars
<1>2. /\ monitor = "idle" /\ peer[p] # 0 /\ (Exists(p) \/ p \in unseen)
      /\ p \in Dirs => applying.status = "CREATE"
      /\ applying.status = "CREATE" => p \in kept \/ ~Tracked(p)
      /\ p \in Paths
      /\ applying = [path |-> p, status |-> applying.status]
      /\ applying.status \in {"CREATE", "UPDATE"}
  BY <1>1 DEF Formed, Applied, TypeOK
<1>3. /\ t \in Arrays /\ DOMAIN t = 1 .. Len(t) /\ Len(t) \in Nat
      /\ \A q \in Paths : applying'.path # q
  BY <1>1, ArrayTypes, PathsAssumption DEF Idle
<1>4. Applied' /\ RemoteGone'
  BY <1>1 DEF Formed, Applied, RemoteGone, Exists
<1>5. CASE UNCHANGED tracked_files /\ p \notin Regular
  <2>1. TrackedOnce' /\ Known' /\ Quiet'
    BY <1>1, <1>5 DEF Formed, TrackedOnce, Known, Quiet, Pending
  <2>2. FilesTracked'
    BY <1>1, <1>2, <1>5 DEF Formed, FilesTracked, Regular, Tracked
  <2>3. Recorded'
    BY <1>1, <1>2, <1>5 DEF Formed, Recorded, Regular, Tracked, Exists
  <2>. QED
    BY <1>4, <2>1, <2>2, <2>3 DEF Formed
<1>6. CASE Exists(p) /\ applying.status = "CREATE" /\ u = Add(t, p, "STABLE")
  <2>. DEFINE e == [path |-> p, modified_time |-> mtime[p], status |-> "STABLE"]
  <2>1. mtime[p] \in 0 .. MaxClock
    BY <1>2 DEF TypeOK
  <2>2. e \in TrackedFile /\ e.path = p /\ e.status = "STABLE" /\ e.modified_time = mtime[p]
    BY <1>2, <2>1 DEF TrackedFile
  <2>3. u = Append(t, e)
    BY <1>6 DEF Add
  <2>. HIDE DEF e
  <2>4. /\ DOMAIN u = DOMAIN t \cup {Len(t) + 1}
        /\ Len(t) + 1 \notin DOMAIN t
        /\ Len(u) = Len(t) + 1
        /\ \A j \in DOMAIN t : u[j] = t[j]
        /\ u[Len(t) + 1] = e
    BY <1>3, <2>2, <2>3, EntryAppended
  <2>5. p \in kept \/ ~Tracked(p)
    BY <1>2, <1>6
  <2>6. \A q \in Paths : Tracked(q)' <=> Tracked(q) \/ q = p
    BY <2>2, <2>4 DEF Tracked
  <2>7. TrackedOnce'
    <3>1. DOMAIN u = 1 .. Len(u)
      BY <1>3, <2>4
    <3>. QED
      BY <1>1, <1>3, <2>2, <2>4, <2>5, <3>1 DEF Formed, TrackedOnce, Tracked
  <2>8. Known'
    <3>1. \A j \in DOMAIN t : ~Pending(j)
      BY <1>2 DEF Pending
    <3>. QED
      BY <1>1, <1>2, <2>2, <2>4, <3>1 DEF Formed, Known
  <2>9. Quiet'
    BY <1>1, <1>2, <2>2, <2>4 DEF Formed, Quiet
  <2>10. FilesTracked'
    BY <1>1, <1>2, <2>6 DEF Formed, FilesTracked, Regular
  <2>11. Recorded'
    <3>1. ASSUME NEW q \in Regular', origin'[q] = "remote"
          PROVE  /\ Exists(q)' <=> Tracked(q)'
                 /\ \A j \in DOMAIN u :
                      u[j].path = q =>
                        /\ u[j].status = "STABLE"
                        /\ q \in Files => mtime'[q] <= u[j].modified_time
      <4>1. q \in Regular /\ q \in Paths /\ origin[q] = "remote" /\ (Exists(q)' <=> Exists(q))
        BY <1>1, <3>1 DEF Regular, Exists
      <4>2. CASE q # p
        <5>1. \A j \in DOMAIN u : u[j].path = q => j \in DOMAIN t /\ u[j] = t[j]
          BY <2>2, <2>4, <4>2
        <5>. QED
          BY <1>1, <2>6, <4>1, <4>2, <5>1 DEF Formed, Recorded
      <4>3. CASE q = p
        <5>1. ~Tracked(p)
          BY <2>5, <4>1, <4>3 DEF Regular
        <5>2. \A j \in DOMAIN u : u[j].path = p => u[j] = e
          BY <2>4, <5>1 DEF Tracked
        <5>. QED
          BY <1>1, <1>6, <2>1, <2>2, <2>6, <4>1, <4>3, <5>2
      <4>. QED
        BY <4>2, <4>3
    <3>. QED
      BY <3>1 DEF Recorded
  <2>. QED
    BY <1>4, <2>7, <2>8, <2>9, <2>10, <2>11 DEF Formed
<1>7. CASE Exists(p) /\ applying.status = "UPDATE" /\ k # 0
           /\ u = [t EXCEPT ![k].modified_time = mtime[p]]
  <2>. DEFINE e == [t[k] EXCEPT !.modified_time = mtime[p]]
  <2>1. mtime[p] \in 0 .. MaxClock /\ p \notin Dirs
    BY <1>2, <1>7 DEF TypeOK
  <2>2. k \in DOMAIN t /\ t[k].path = p /\ t[k] \in TrackedFile
    BY <1>3, <1>7, FindsFirst, ArrayFacts
  <2>3. /\ e \in TrackedFile /\ e.path = p /\ e.status = t[k].status
        /\ e.modified_time = mtime[p]
    BY <2>1, <2>2 DEF TrackedFile
  <2>4. u = [t EXCEPT ![k] = e]
    BY <1>7
  <2>. HIDE DEF e, k
  <2>5. DOMAIN u = DOMAIN t /\ Len(u) = Len(t) /\ \A j \in DOMAIN t : u[j] = IF j = k THEN e ELSE t[j]
    BY <1>3, <2>2, <2>3, <2>4, EntryChanged
  <2>6. \A j \in DOMAIN t : u[j].path = t[j].path /\ u[j].status = t[j].status
    BY <2>2, <2>3, <2>5
  <2>7. \A q \in Paths : Tracked(q)' <=> Tracked(q)
    BY <2>5, <2>6 DEF Tracked
  <2>8. TrackedOnce'
    BY <1>1, <1>3, <2>5, <2>6 DEF Formed, TrackedOnce
  <2>9. Known' /\ Quiet'
    BY <1>1, <1>2, <2>5, <2>6 DEF Formed, Known, Quiet, Pending
  <2>10. Tracked(p)
    BY <2>2 DEF Tracked
  <2>11. FilesTracked'
    BY <1>1, <1>2, <2>7, <2>10 DEF Formed, FilesTracked, Regular
  <2>12. Recorded'
    <3>1. ASSUME NEW q \in Regular', origin'[q] = "remote"
          PROVE  /\ Exists(q)' <=> Tracked(q)'
                 /\ \A j \in DOMAIN u :
                      u[j].path = q =>
                        /\ u[j].status = "STABLE"
                        /\ q \in Files => mtime'[q] <= u[j].modified_time
      <4>1. q \in Regular /\ q \in Paths /\ origin[q] = "remote" /\ (Exists(q)' <=> Exists(q))
        BY <1>1, <3>1 DEF Regular, Exists
      <4>2. CASE q # p
        <5>1. \A j \in DOMAIN u : u[j].path = q => j \in DOMAIN t /\ u[j] = t[j]
          BY <2>3, <2>5, <4>2
        <5>. QED
          BY <1>1, <2>7, <4>1, <4>2, <5>1 DEF Formed, Recorded
      <4>3. CASE q = p
        <5>1. \A j \in DOMAIN u : u[j].path = p => u[j] = e /\ u[j].status = "STABLE"
          BY <1>2, <1>3, <2>2, <2>5, <2>6, <4>1, <4>3 DEF Formed, TrackedOnce, Quiet, Regular
        <5>. QED
          BY <1>1, <1>7, <2>1, <2>3, <2>7, <2>10, <4>1, <4>3, <5>1
      <4>. QED
        BY <4>2, <4>3
    <3>. QED
      BY <3>1 DEF Recorded
  <2>. QED
    BY <1>4, <2>8, <2>9, <2>11, <2>12 DEF Formed
<1>8. CASE UNCHANGED tracked_files /\ (~Exists(p) \/ (applying.status = "UPDATE" /\ k = 0))
  <2>1. ~Exists(p) => p \notin Regular
    BY <1>2 DEF Regular
  <2>2. applying.status = "UPDATE" /\ k = 0 => p \notin Regular
    <3>1. k = 0 => ~Tracked(p)
      BY <1>3, FindsFirst DEF Tracked
    <3>. QED
      BY <1>2, <3>1 DEF Formed, FilesTracked, Regular, Files
  <2>. QED
    BY <1>5, <1>8, <2>1, <2>2
<1>. QED
  BY <1>1, <1>2, <1>6, <1>7, <1>8 DEF Record

LEMMA RemoteRemovesFormed ==
  ASSUME TypeOK, Formed, NEW p \in Paths, RemoteRemoves(p)
  PROVE  Formed'
<1>. DEFINE t == tracked_files
            u == tracked_files'
            gone == IF p \in Dirs THEN {q \in Subtree(p) : Exists(q)} ELSE {p}
<1>1. /\ UNCHANGED <<applying, broken, unseen, mtime, monitor, todo, i>>
      /\ monitor = "idle" /\ applying = Idle /\ ~broken
      /\ content' = [q \in Paths |-> IF q \in gone THEN 0 ELSE content[q]]
      /\ origin' = [q \in Paths |-> IF q \in gone /\ Exists(q) THEN "remote" ELSE origin[q]]
      /\ kept' = kept \cup {q \in Subtree(p) \ gone : Find(t, q) # 0}
      /\ Forget(gone)
  BY DEF RemoteRemoves, RemoteActs, roundVars
<1>2. /\ \A q \in Paths : q \in Subtree(p) => peer'[q] = 0
      /\ \A q \in Paths : q \notin Subtree(p) => peer'[q] = peer[q]
      /\ gone \subseteq Subtree(p)
  BY DEF RemoteRemoves, Subtree
<1>3. /\ t \in Arrays /\ DOMAIN t = 1 .. Len(t) /\ Len(t) \in Nat
      /\ \A j \in DOMAIN t : t[j].path \in Paths
      /\ \A q \in Paths : applying.path # q
  BY <1>1, ArrayTypes, PathsAssumption DEF Idle
<1>. HIDE DEF gone
<1>4. u \in Arrays /\ DOMAIN u = 1 .. Len(u)
  BY <1>1, <1>3, Forgets, ArrayFacts
<1>5. PICK at \in [DOMAIN u -> DOMAIN t] :
        /\ \A j, k \in DOMAIN u : at[j] = at[k] => j = k
        /\ \A j \in DOMAIN u : u[j] = t[at[j]] /\ at[j] \in Left(t, gone)
        /\ \A k \in Left(t, gone) : \E j \in DOMAIN u : at[j] = k
  BY <1>1, <1>3, Forgets
<1>6. \A j \in DOMAIN u : at[j] \in DOMAIN t
  BY <1>5
<1>7. \A j \in DOMAIN u : u[j].path \in gone => u[j].path \in kept
  <2>. SUFFICES ASSUME NEW j \in DOMAIN u, u[j].path \in gone
                PROVE  u[j].path \in kept
    OBVIOUS
  <2>. DEFINE q == u[j].path
              k == Find(t, q)
  <2>1. at[j] \in DOMAIN t /\ t[at[j]].path = q /\ k # at[j]
    BY <1>5, <1>6 DEF Left
  <2>2. k \in DOMAIN t /\ t[k].path = q
    BY <1>3, <2>1, FindsFirst
  <2>. HIDE DEF k
  <2>. QED
    BY <1>3, <2>1, <2>2 DEF Formed, TrackedOnce
<1>8. \A q \in Paths : Tracked(q)' => Tracked(q)
  BY <1>5, <1>6 DEF Tracked
<1>9. \A q \in Paths : q \notin gone /\ Tracked(q) => Tracked(q)'
  <2>. SUFFICES ASSUME NEW q \in Paths, q \notin gone, NEW k \in DOMAIN t, t[k].path = q
                PROVE  Tracked(q)'
    BY DEF Tracked
  <2>1. k \in Left(t, gone)
    BY DEF Left
  <2>. QED
    BY <1>5, <2>1 DEF Tracked
<1>10. \A q \in Subtree(p) \ gone : Tracked(q) => q \in kept'
  BY <1>1, <1>3, FindsFirst DEF Tracked
<1>11. TrackedOnce'
  <2>1. kept \subseteq kept'
    BY <1>1
  <2>. QED
    BY <1>3, <1>4, <1>5, <1>6, <2>1 DEF Formed, TrackedOnce
<1>12. Known'
  <2>1. ASSUME NEW j \in DOMAIN u
        PROVE  u[j].path \in kept' \/ peer'[u[j].path] # 0
    <3>. DEFINE q == u[j].path
    <3>1. q \in Paths /\ Tracked(q)
      BY <1>3, <1>5, <1>6 DEF Tracked
    <3>2. q \in kept \/ peer[q] # 0
      BY <1>1, <1>5, <1>6 DEF Formed, Known, Pending
    <3>3. CASE q \in kept \/ q \in gone
      BY <1>1, <1>7, <3>3
    <3>4. CASE q \in Subtree(p) \ gone
      BY <1>10, <3>1, <3>4
    <3>5. CASE q \notin Subtree(p)
      BY <1>1, <1>2, <3>1, <3>2, <3>5
    <3>. QED
      BY <3>3, <3>4, <3>5
  <2>. QED
    BY <2>1 DEF Known
<1>13. Applied'
  BY <1>1 DEF Applied
<1>14. Quiet'
  BY <1>1, <1>5, <1>6 DEF Formed, Quiet
<1>15. FilesTracked'
  BY <1>1, <1>2, <1>3, <1>9 DEF Formed, FilesTracked, Regular, Idle
<1>16. RemoteGone'
  <2>1. ASSUME NEW q \in Paths, origin'[q] = "remote", ~Exists(q)'
        PROVE  peer'[q] = 0
    <3>1. CASE q \in Subtree(p)
      BY <1>2, <3>1
    <3>2. CASE q \notin Subtree(p)
      <4>1. q \notin gone
        BY <1>2, <3>2
      <4>2. origin[q] = "remote" /\ ~Exists(q)
        BY <1>1, <2>1, <4>1 DEF Exists
      <4>. QED
        BY <1>1, <1>2, <3>2, <4>2 DEF Formed, RemoteGone
    <3>. QED
      BY <3>1, <3>2
  <2>. QED
    BY <2>1 DEF RemoteGone
<1>17. Recorded'
  <2>1. ASSUME NEW q \in Regular', origin'[q] = "remote"
        PROVE  /\ Exists(q)' <=> Tracked(q)'
               /\ \A j \in DOMAIN u :
                    u[j].path = q =>
                      /\ u[j].status = "STABLE"
                      /\ q \in Files => mtime'[q] <= u[j].modified_time
    <3>1. q \in Regular /\ q \in Paths /\ q \notin kept
      BY <1>1, <2>1 DEF Regular
    <3>2. CASE q \in gone
      <4>1. ~Exists(q)'
        BY <1>1, <3>1, <3>2 DEF Exists
      <4>2. \A j \in DOMAIN u : u[j].path # q
        BY <1>7, <3>1, <3>2
      <4>. QED
        BY <4>1, <4>2 DEF Tracked
    <3>3. CASE q \notin gone
      <4>1. origin[q] = "remote" /\ (Exists(q)' <=> Exists(q))
        BY <1>1, <2>1, <3>1, <3>3 DEF Exists
      <4>. QED
        BY <1>1, <1>3, <1>5, <1>6, <1>8, <1>9, <3>1, <3>3, <4>1 DEF Formed, Recorded
    <3>. QED
      BY <3>2, <3>3
  <2>. QED
    BY <2>1 DEF Recorded
<1>. QED
  BY <1>11, <1>12, <1>13, <1>14, <1>15, <1>16, <1>17 DEF Formed

-----------------------------------------------------------------------------
(* The invariant holds in every state.                                    *)
LEMMA FormedAlways == Spec => [](TypeOK /\ Formed)
<1>1. TypeOK /\ Formed /\ [Next]_vars => Formed'
  <2>. SUFFICES ASSUME TypeOK, Formed, [Next]_vars PROVE Formed'
    OBVIOUS
  <2>1. CASE Tick \/ UNCHANGED vars
    BY <2>1, TickFormed
  <2>2. CASE MonitorStep
    BY <2>2, RoundFormed, CheckStatusFormed, CheckDeletionFormed, ReportChangeFormed,
       ReportDeletionFormed DEF MonitorStep
  <2>3. CASE RemoteWritten
    BY <2>3, RemoteWrittenFormed
  <2>4. CASE \E p \in Paths :
               UserWrites(p) \/ UserRemoves(p) \/ RemoteWrites(p) \/ RemoteRemoves(p)
    BY <2>4, UserWritesFormed, UserRemovesFormed, RemoteWritesFormed, RemoteRemovesFormed
  <2>. QED
    BY <2>1, <2>2, <2>3, <2>4 DEF Next
<1>. QED
  BY <1>1, InitFormed, TypeCorrect, PTL DEF Spec

(* A path is tracked once, whoever makes, changes and removes it and       *)
(* whatever the monitor's round meets (tracking_system.c:195-248), unless  *)
(* its entry outlived the end of its directory.                            *)
THEOREM TrackedOnceHolds == Spec => []TrackedOnce
BY FormedAlways, PTL DEF Formed

(* What the monitor reports is the user's (tracking_system.c:222-266).     *)
THEOREM NoEchoHolds == Spec => NoEcho
<1>1. TypeOK /\ Formed =>
        [\A p \in Paths \ (unseen \cup kept) :
           Reported(p) /\ (ReportChange \/ ReportDeletion) => origin[p] = "user"]_vars
  <2>. SUFFICES ASSUME TypeOK, Formed, NEW p \in Regular, Reported(p)
                PROVE  origin[p] = "user"
    BY DEF Regular
  <2>1. applying.path # p /\ i \in DOMAIN tracked_files /\ p \in Paths
    BY RoundAlone, ArrayTypes DEF Reported, Regular
  <2>2. origin[p] # "remote"
    BY <2>1 DEF Reported, Formed, Recorded
  <2>. QED
    BY <2>1, <2>2 DEF TypeOK
<1>. QED
  BY <1>1, FormedAlways, PTL DEF NoEcho
=============================================================================
