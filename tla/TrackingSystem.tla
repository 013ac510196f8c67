--------------------------- MODULE TrackingSystem ---------------------------
(***************************************************************************)
(* One synchronised directory: the tracking system (tracking_system.c),    *)
(* the monitor thread that scans the directory and reports what changed    *)
(* (dir_monitor of client.c and of server.c), the thread that applies the  *)
(* other side's changes (controller.c), and the user, who works in the     *)
(* directory at any time.                                                  *)
(*                                                                         *)
(* A round of the monitor and the application of one remote change hold    *)
(* comm_lock, so they exclude each other; Server says when that fails.     *)
(* The other side is `peer`: it applies each report at once, and its       *)
(* changes arrive one at a time, with no report under way in the other     *)
(* direction.  What is sent is what is on the disk at that moment.  What a *)
(* broken stream delivers is not modelled.                                 *)
(*                                                                         *)
(* The content of a file is a number, new for every write; a directory's   *)
(* is 1.  clock is the time in seconds, the resolution of st_mtime.        *)
(***************************************************************************)
EXTENDS Naturals, Sequences, FiniteSets, SequencesExt, Functions

CONSTANTS
  Paths,        \* the paths below the synchronised directory
  Dirs,         \* those of them that are directories
  Above,        \* the directories a path is in, from the one below the root on
  ROOT,         \* the synchronised directory itself
  MaxClock,     \* bound: seconds that pass
  MaxUser,      \* bound: changes by the user
  MaxRemote     \* bound: changes by the other side

ASSUME PathsAssumption == IsFiniteSet(Paths) /\ Dirs \subseteq Paths /\ ROOT \notin Paths
ASSUME AboveAssumption ==
  /\ Above \in [Paths -> SUBSET Dirs]
  /\ \A p \in Paths : p \notin Above[p] /\ \A a \in Above[p] : Above[a] \subseteq Above[p]
ASSUME BoundsAssumption == MaxClock \in Nat /\ MaxUser \in Nat /\ MaxRemote \in Nat

VARIABLES
  content,        \* what each path holds: 0 if it does not exist
  mtime,          \* st_mtime of each path that exists
  clock,          \* the current second
  tracked_files,  \* the array of tracked_file_t
  monitor,        \* where the monitor's round is
  todo,           \* paths check_statuses has still to come to
  i,              \* the loop index of check_deletion and of the reports
  applying,       \* the remote change under way, or none
  peer,           \* what the other side holds
  broken,         \* a stream lost its framing: a terminator is missing
  origin,         \* history: who changed each path last
  unseen,         \* history: paths the user changed when their time could not tell
  kept,           \* history: paths whose entry outlived the end of their directory
  userChanges, remoteChanges  \* changes so far

diskVars == <<content, mtime>>
roundVars == <<monitor, todo, i>>
boundVars == <<clock, userChanges, remoteChanges>>
historyVars == <<origin, unseen, kept>>
vars == <<diskVars, tracked_files, roundVars, applying, peer, broken, historyVars, boundVars>>

Files == Paths \ Dirs
Versions == 0 .. MaxUser + MaxRemote + 1
Idle == [path |-> ROOT, status |-> "none"]
Exists(p) == content[p] # 0

(* p and all that is below it.                                             *)
Subtree(p) == {q \in Paths : q = p \/ p \in Above[q]}

TrackedFile ==
  [path : Paths, modified_time : 0 .. MaxClock,
   status : {"STABLE", "CREATED", "UPDATED", "DELETED"}]

TypeOK ==
  /\ content \in [Paths -> Versions] /\ peer \in [Paths -> Versions]
  /\ mtime \in [Paths -> 0 .. MaxClock] /\ clock \in 0 .. MaxClock
  /\ tracked_files \in Seq(TrackedFile)
  /\ monitor \in {"idle", "scan", "deletions", "report"}
  /\ todo \subseteq Paths /\ i \in Nat \ {0}
  /\ applying \in [path : Paths, status : {"CREATE", "UPDATE"}] \cup {Idle}
  /\ broken \in BOOLEAN /\ kept \subseteq Paths /\ origin \in [Paths -> {"user", "remote"}]
  /\ unseen \subseteq Paths /\ userChanges \in 0 .. MaxUser /\ remoteChanges \in 0 .. MaxRemote
  /\ \A p \in Paths : Exists(p) => \A a \in Above[p] : Exists(a)

Init ==
  /\ content = [p \in Paths |-> 0] /\ mtime = [p \in Paths |-> 0]
  /\ peer = [p \in Paths |-> 0]
  /\ clock = 0 /\ tracked_files = <<>>
  /\ monitor = "idle" /\ todo = {} /\ i = 1
  /\ applying = Idle /\ broken = FALSE /\ unseen = {} /\ kept = {}
  /\ origin = [p \in Paths |-> "user"]
  /\ userChanges = 0 /\ remoteChanges = 0

-----------------------------------------------------------------------------
(* An operator whose name ends in _mutant is the definition after it with  *)
(* a bug planted; the project's mutation runs substitute it, nothing else  *)
(* uses it.                                                                *)

(* The array: find_tracked_file (0 if there is none), add_tracked_file and *)
(* the append of update_tracking_system, remove_tracked_file.              *)
Find_mutant(array, p) == 0
Find(array, p) == SelectInSeq(array, LAMBDA entry : entry.path = p)

Add(array, p, status) ==
  Append(array, [path |-> p, modified_time |-> mtime[p], status |-> status])

RemoveTracked(array, p) == RemoveFirstMatch(array, LAMBDA entry : entry.path = p)

(* remove_tracked_file() for each path of gone: the other entries keep     *)
(* their order.                                                            *)
Left(array, gone) ==
  {j \in DOMAIN array : array[j].path \in gone => Find(array, array[j].path) # j}

Forget(gone) ==
  LET left == Left(tracked_files, gone)
      places == 1 .. Cardinality(left)
  IN
  \E at \in Bijection(places, left) :
    /\ \A j, k \in places : j < k => at[j] < at[k]
    /\ tracked_files' = [k \in places |-> tracked_files[at[k]]]

(* check_modification().                                                   *)
Newer_mutant(entry) == mtime[entry.path] >= entry.modified_time
Newer(entry) == mtime[entry.path] > entry.modified_time

Modification_mutant(entry) ==
  IF entry.path \in Dirs THEN entry
  ELSE [entry EXCEPT !.status = "STABLE", !.modified_time = mtime[entry.path]]
Modification(entry) ==
  IF entry.path \in Dirs THEN entry
  ELSE IF Newer(entry)
       THEN [entry EXCEPT !.status = "UPDATED", !.modified_time = mtime[entry.path]]
       ELSE [entry EXCEPT !.status = "STABLE"]

(* What a fresh write puts into path p.                                    *)
NewContent(p) == IF p \in Dirs THEN 1 ELSE userChanges + remoteChanges + 2

-----------------------------------------------------------------------------
(* Time, and the user.                                                     *)
Tick ==
  /\ clock < MaxClock
  /\ clock' = clock + 1
  /\ UNCHANGED <<diskVars, tracked_files, roundVars, applying, peer, broken, historyVars,
                 userChanges, remoteChanges>>

(* Times are in seconds: a write in the second recorded for the path, and  *)
(* a change between a remote write and the stat() that records it, leave   *)
(* no trace.                                                               *)
UserActs(p, unnoticed) ==
  /\ userChanges < MaxUser
  /\ userChanges' = userChanges + 1
  /\ unseen' = IF unnoticed \/ applying.path = p THEN unseen \cup {p} ELSE unseen
  /\ origin' = [origin EXCEPT ![p] = "user"]

UserWrites(p) ==
  LET k == Find(tracked_files, p) IN
  /\ UserActs(p, k # 0 /\ tracked_files[k].modified_time = clock)
  /\ \A a \in Above[p] : Exists(a)
  /\ p \in Dirs => ~Exists(p)
  /\ content' = [content EXCEPT ![p] = NewContent(p)]
  /\ mtime' = [mtime EXCEPT ![p] = clock]
  /\ UNCHANGED <<clock, tracked_files, roundVars, applying, peer, broken, remoteChanges,
                 kept>>

UserRemoves(p) ==
  /\ UserActs(p, FALSE)
  /\ Exists(p) /\ \A q \in Subtree(p) \ {p} : ~Exists(q)
  /\ content' = [content EXCEPT ![p] = 0]
  /\ UNCHANGED <<mtime, clock, tracked_files, roundVars, applying, peer, broken,
                 remoteChanges, kept>>

-----------------------------------------------------------------------------
(* A round of the monitor: check_statuses, in the order of readdir, each   *)
(* directory before what is in it; then check_deletion; then the reports.  *)
StartRound ==
  /\ monitor = "idle" /\ applying = Idle
  /\ monitor' = "scan" /\ todo' = Paths
  /\ UNCHANGED <<diskVars, tracked_files, i, applying, peer, broken, historyVars,
                 boundVars>>

CheckStatus(p) ==
  LET k == Find(tracked_files, p) IN
  /\ monitor = "scan" /\ p \in todo
  /\ Above[p] \cap todo = {}
  /\ todo' = todo \ (IF Exists(p) THEN {p} ELSE Subtree(p))
  /\ \/ ~Exists(p) /\ UNCHANGED tracked_files
     \/ /\ Exists(p) /\ k = 0
        /\ tracked_files' = Add(tracked_files, p, "CREATED")
     \/ /\ Exists(p) /\ k # 0
        /\ tracked_files' = [tracked_files EXCEPT ![k] = Modification(@)]
  /\ UNCHANGED <<diskVars, monitor, i, applying, peer, broken, historyVars, boundVars>>

StartDeletions ==
  /\ monitor = "scan" /\ todo = {}
  /\ monitor' = "deletions" /\ i' = 1
  /\ UNCHANGED <<diskVars, tracked_files, todo, applying, peer, broken, historyVars,
                 boundVars>>

CheckDeletion ==
  /\ monitor = "deletions" /\ i <= Len(tracked_files)
  /\ i' = i + 1
  /\ IF Exists(tracked_files[i].path)
     THEN UNCHANGED tracked_files
     ELSE tracked_files' = [tracked_files EXCEPT ![i].status = "DELETED"]
  /\ UNCHANGED <<diskVars, monitor, todo, applying, peer, broken, historyVars, boundVars>>

StartReports ==
  /\ monitor = "deletions" /\ i > Len(tracked_files)
  /\ monitor' = "report" /\ i' = 1
  /\ UNCHANGED <<diskVars, tracked_files, todo, applying, peer, broken, historyVars,
                 boundVars>>

Reporting(statuses) ==
  /\ monitor = "report" /\ i <= Len(tracked_files)
  /\ tracked_files[i].status \in statuses

SkipStable ==
  /\ Reporting({"STABLE"})
  /\ i' = i + 1
  /\ UNCHANGED <<diskVars, tracked_files, monitor, todo, applying, peer, broken,
                 historyVars, boundVars>>

(* CREATE or UPDATE: the header, then what the path holds now.  The other  *)
(* side creates the directories a file needs, but a directory with one     *)
(* mkdir(), and when that fails it leaves the rest unread.  If the path    *)
(* cannot be opened the header is sent and nothing else.                   *)
PeerMakes(p) == p \in Files \/ peer[p] # 0 \/ \A a \in Above[p] : peer[a] # 0

ReportChange ==
  LET p == tracked_files[i].path IN
  /\ Reporting({"CREATED", "UPDATED"})
  /\ tracked_files' = [tracked_files EXCEPT ![i].status = "STABLE"]
  /\ i' = i + 1
  /\ \/ /\ Exists(p) /\ PeerMakes(p)
        /\ peer' = [q \in Paths |-> IF q = p THEN content[p]
                                    ELSE IF q \in Above[p] THEN 1 ELSE peer[q]]
        /\ UNCHANGED broken
     \/ ~(Exists(p) /\ PeerMakes(p)) /\ broken' = TRUE /\ UNCHANGED peer
  /\ UNCHANGED <<diskVars, monitor, todo, applying, historyVars, boundVars>>

(* DELETE: the entry leaves the array and the loop index steps back.  The  *)
(* other side removes all that is below the path.  An entry below it that  *)
(* was found in place before its directory was found gone is not reported  *)
(* in this round, and so outlives it.                                      *)
ReportDeletion ==
  LET p == tracked_files[i].path IN
  /\ Reporting({"DELETED"})
  /\ tracked_files' = RemoveTracked(tracked_files, p)
  /\ peer' = [q \in Paths |-> IF q \in Subtree(p) THEN 0 ELSE peer[q]]
  /\ kept' = kept \cup {q \in Subtree(p) \ {p} : \E j \in DOMAIN tracked_files :
                         /\ tracked_files[j].path = q
                         /\ j < i \/ tracked_files[j].status = "STABLE"}
  /\ UNCHANGED <<diskVars, roundVars, applying, broken, origin, unseen, boundVars>>

EndRound ==
  /\ monitor = "report" /\ i > Len(tracked_files)
  /\ monitor' = "idle" /\ i' = 1
  /\ UNCHANGED <<diskVars, tracked_files, todo, applying, peer, broken, historyVars,
                 boundVars>>

-----------------------------------------------------------------------------
(* The other side changes its directory and sends the change, which is     *)
(* applied here under comm_lock, from the first system call to             *)
(* update_tracking_system().                                               *)
RemoteActs ==
  /\ monitor = "idle" /\ applying = Idle /\ ~broken
  /\ remoteChanges < MaxRemote
  /\ remoteChanges' = remoteChanges + 1

(* A file: open it, creating the directories it needs, and write it.  A    *)
(* directory: mkdir() if it is not there; when that fails the answer that  *)
(* follows is left unread.                                                 *)
Missing_mutant(p) == {}
Missing(p) == {a \in Above[p] : ~Exists(a)}

RemoteWrites(p) ==
  LET missing == Missing(p)
      made == {p} \cup missing
  IN
  /\ RemoteActs
  /\ \A a \in Above[p] : peer[a] # 0
  /\ p \in Dirs => peer[p] = 0
  /\ peer' = [peer EXCEPT ![p] = NewContent(p)]
  /\ \/ /\ p \in Dirs /\ ~Exists(p) /\ missing # {}
        /\ broken' = TRUE
        /\ UNCHANGED <<diskVars, applying, origin>>
     \/ /\ p \in Files \/ Exists(p) \/ missing = {}
        /\ content' = [q \in Paths |-> IF q = p THEN NewContent(p)
                                       ELSE IF q \in missing THEN 1 ELSE content[q]]
        /\ mtime' = [q \in Paths |-> IF q \in made /\ ~(q \in Dirs /\ Exists(q))
                                     THEN clock ELSE mtime[q]]
        /\ origin' = [origin EXCEPT ![p] = "remote"]
        /\ applying' = [path |-> p,
                        status |-> IF peer[p] = 0 THEN "CREATE" ELSE "UPDATE"]
        /\ UNCHANGED broken
  /\ UNCHANGED <<clock, tracked_files, roundVars, userChanges, unseen, kept>>

(* update_tracking_system(): nothing if the path is gone; CREATE appends   *)
(* an entry, UPDATE sets the time of the entry if there is one.            *)
Record(p, status) ==
  LET k == Find(tracked_files, p) IN
  IF ~Exists(p) THEN UNCHANGED tracked_files
  ELSE IF status = "CREATE" THEN tracked_files' = Add(tracked_files, p, "STABLE")
  ELSE IF k # 0
  THEN tracked_files' = [tracked_files EXCEPT ![k].modified_time = mtime[p]]
  ELSE UNCHANGED tracked_files

RemoteWritten ==
  /\ applying # Idle
  /\ Record(applying.path, applying.status)
  /\ applying' = Idle
  /\ UNCHANGED <<diskVars, roundVars, peer, broken, historyVars, boundVars>>

(* DELETE: forget and unlink a file; for a directory all that is found     *)
(* below it, then the directory, but nothing if it cannot be opened.       *)
RemoteRemoves(p) ==
  LET gone == IF p \in Dirs THEN {q \in Subtree(p) : Exists(q)} ELSE {p} IN
  /\ RemoteActs
  /\ peer[p] # 0
  /\ peer' = [q \in Paths |-> IF q \in Subtree(p) THEN 0 ELSE peer[q]]
  /\ Forget(gone)
  /\ content' = [q \in Paths |-> IF q \in gone THEN 0 ELSE content[q]]
  /\ origin' = [q \in Paths |-> IF q \in gone /\ Exists(q) THEN "remote" ELSE origin[q]]
  /\ kept' = kept \cup {q \in Subtree(p) \ gone : Find(tracked_files, q) # 0}
  /\ UNCHANGED <<mtime, clock, roundVars, applying, broken, unseen, userChanges>>

-----------------------------------------------------------------------------
MonitorStep ==
  \/ StartRound \/ (\E p \in Paths : CheckStatus(p)) \/ StartDeletions
  \/ CheckDeletion \/ StartReports
  \/ SkipStable \/ ReportChange \/ ReportDeletion \/ EndRound

Next ==
  \/ Tick
  \/ MonitorStep
  \/ RemoteWritten
  \/ \E p \in Paths :
       UserWrites(p) \/ UserRemoves(p) \/ RemoteWrites(p) \/ RemoteRemoves(p)

Spec == Init /\ [][Next]_vars

(* The monitor loops for ever, sleeping 50 ms between rounds, and the      *)
(* thread that applies a change finishes it.                               *)
FairSpec == Spec /\ WF_vars(MonitorStep) /\ WF_vars(RemoteWritten)

-----------------------------------------------------------------------------
(* A path is tracked once: the first of two entries would hide what the    *)
(* other says, since find_tracked_file() stops at it                       *)
(* (tracking_system.c:195-207, 236-241).  The exception is a path whose    *)
(* entry outlived the end of its directory: when the other side removes a  *)
(* directory, what is already gone here stays tracked                      *)
(* (controller.c:333-337), and so does what check_deletion() still found   *)
(* before it found the directory gone (tracking_system.c:165-172).         *)
TrackedOnce ==
  \A j, k \in 1 .. Len(tracked_files) :
    tracked_files[j].path = tracked_files[k].path =>
      j = k \/ tracked_files[j].path \in kept

Reported(p) ==
  monitor = "report" /\ i <= Len(tracked_files) /\ tracked_files[i].path = p
    /\ tracked_files[i].status # "STABLE"

(* The two sides do not echo: what the monitor reports is a change the     *)
(* user made, never one that came from the other side                      *)
(* (tracking_system.c:222-248 records what was applied), except for a path *)
(* the user changed while it was applied (tracking_system.c:228-231) and   *)
(* for one whose entry outlived its directory.  A directory the user       *)
(* removed and create_nested_directory() made again is still the user's.   *)
NoEcho ==
  [][\A p \in Paths \ (unseen \cup kept) :
       Reported(p) /\ (ReportChange \/ ReportDeletion) => origin[p] = "user"]_vars

InSync == \A p \in Paths \ unseen : peer[p] = content[p]

(* When user and other side rest, the two directories become equal and     *)
(* stay so, whatever order the scan met the changes in, unless a stream    *)
(* lost its framing or an entry outlived its directory                     *)
(* (controller.c:134-138, 232-236, 333-337).  A path may differ that the   *)
(* user changed in the second last recorded for it, or between the write   *)
(* of a remote change and the stat() that records it, and that path only   *)
(* (tracking_system.c:228-246, 257).                                       *)
BecomesInSync == <>[](InSync \/ broken \/ kept # {})
==============================================================================
