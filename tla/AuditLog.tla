------------------------------ MODULE AuditLog -------------------------------
(***************************************************************************)
(* AuditLogger (audit.py) and its files.  One call of record at a time     *)
(* holds the lock; it checks the size of the active file, rotates if the   *)
(* event does not fit, opens, writes and syncs.  Any of these steps may    *)
(* fail, and the process may end between any two of them.                  *)
(*                                                                         *)
(* files[0] is audit.jsonl and files[i] is audit.jsonl.i; an absent file   *)
(* is an empty one.  Sizes are counted in units: an event is EventSize     *)
(* units, the last of which ends its line.  The actions of this module are *)
(* completed with what their caller does by AuditedServer.                 *)
(***************************************************************************)
EXTENDS SequencesExt

CONSTANTS
    MaxFile,      \* max_file_bytes, in units
    Retained,     \* retained_files
    EventSize,    \* the units of an encoded event
    ShortWrites,  \* a write may end after a part of the event
    MaxSessions   \* bound on the lifetimes of the process

ASSUME SizesAssumption ==
    /\ EventSize \in Nat \ {0}
    /\ MaxFile \in Nat /\ MaxFile >= EventSize
    /\ Retained \in Nat \ {0}
    /\ ShortWrites \in BOOLEAN
    /\ MaxSessions \in Nat \ {0}

Slots == 0..Retained-1

VARIABLES
    files,      \* the contents of the active file and the archives
    stage,      \* where record is: "free", or the next step of the lock holder
    event,      \* the event being recorded
    slot,       \* the archive that _rotate_locked moves next
    put,        \* the units of the event written so far
    sequence,   \* _sequence
    healthy,    \* _healthy
    session,    \* _session_id
    forgotten   \* history: the stored events removed by rotation

logVars == <<files, stage, event, slot, put, sequence, healthy, session, forgotten>>

NoEvent == [call |-> "none", outcome |-> "none"]

Stages == {"free", "unlinking", "shifting", "writing", "syncing"}

LogInit ==
    /\ files = [i \in Slots |-> <<>>]
    /\ stage = "free"
    /\ event = NoEvent
    /\ slot = 0
    /\ put = 0
    /\ sequence = 0
    /\ healthy = TRUE
    /\ session = 1
    /\ forgotten = {}

-----------------------------------------------------------------------------
\* One unit of the line of the event being recorded.
Unit(k) == [call |-> event.call, outcome |-> event.outcome,
            session |-> session, seq |-> sequence + 1, part |-> k]

\* The events of a file that are stored whole, and those of them that can be read:
\* their line starts where a line may start, not behind a fragment of another.
WholeAt(f, i) ==
    /\ i + EventSize - 1 <= Len(f)
    /\ \A k \in 0..EventSize-1 : f[i + k] = [f[i] EXCEPT !.part = k + 1]

LineAt(f, i) == WholeAt(f, i) /\ (i = 1 \/ f[i - 1].part = EventSize)

EventsAt(f, At(_, _)) ==
    {[call |-> f[i].call, outcome |-> f[i].outcome] : i \in {j \in DOMAIN f : At(f, j)}}

Readable(f) == EventsAt(f, LineAt)
Stored(f) == EventsAt(f, WholeAt)

Readables == UNION {Readable(files[i]) : i \in Slots}

\* Fault: the size of the new event is left out.
FitsTightly(f) == Len(f) < MaxFile

Fits(f) == Len(f) + EventSize <= MaxFile

\* Fault: the archives are moved from the newest to the oldest.
ShiftOrderUp == [first |-> 0, last |-> Retained - 2, step |-> 1]

\* Fault: the loop runs one file too far.
ShiftOrderPast == [first |-> Retained - 2, last |-> -1, step |-> -1]

\* The order in which os.replace moves the files up: the oldest first, the
\* active file last.
ShiftOrder == [first |-> Retained - 2, last |-> 0, step |-> -1]

\* record takes the lock, and looks at the active file.
Begin(c, o) ==
    /\ stage = "free"
    /\ event' = [call |-> c, outcome |-> o]
    /\ stage' = IF Fits(files[0]) THEN "writing" ELSE "unlinking"
    /\ put' = 0
    /\ UNCHANGED <<files, slot, sequence, healthy, session, forgotten>>

\* The oldest file is unlinked; with one retained file that is the active one.
Unlink ==
    /\ stage = "unlinking"
    /\ forgotten' = forgotten \cup Stored(files[Retained - 1])
    /\ files' = [files EXCEPT ![Retained - 1] = <<>>]
    /\ stage' = IF Retained = 1 THEN "writing" ELSE "shifting"
    /\ slot' = IF Retained = 1 THEN slot ELSE ShiftOrder.first
    /\ UNCHANGED <<event, put, sequence, healthy, session>>

\* A file that exists is moved over the next older one.
Shift ==
    /\ stage = "shifting"
    /\ files' = IF files[slot] = <<>> THEN files
                ELSE [files EXCEPT ![slot + 1] = files[slot], ![slot] = <<>>]
    /\ IF slot = ShiftOrder.last
       THEN stage' = "writing" /\ UNCHANGED slot
       ELSE slot' = slot + ShiftOrder.step /\ UNCHANGED stage
    /\ UNCHANGED <<event, put, sequence, healthy, session, forgotten>>

\* Fault: the file is opened without O_APPEND, and written from its start.
WriteOver ==
    /\ stage = "writing"
    /\ \E n \in 1..(EventSize - put) :
          /\ n < EventSize - put => ShortWrites
          /\ files' = [files EXCEPT ![0] = [k \in 1..(put + n) |-> Unit(k)]]
          /\ put' = put + n
          /\ stage' = IF put + n = EventSize THEN "syncing" ELSE "writing"
    /\ UNCHANGED <<event, slot, sequence, healthy, session, forgotten>>

\* os.write appends what is left of the event, or a part of it.
Write ==
    /\ stage = "writing"
    /\ \E n \in 1..(EventSize - put) :
          /\ n < EventSize - put => ShortWrites
          /\ files' = [files EXCEPT ![0] = @ \o [k \in 1..n |-> Unit(put + k)]]
          /\ put' = put + n
          /\ stage' = IF put + n = EventSize THEN "syncing" ELSE "writing"
    /\ UNCHANGED <<event, slot, sequence, healthy, session, forgotten>>

Release == stage' = "free" /\ event' = NoEvent /\ slot' = 0 /\ put' = 0

\* fsync and close succeed: record returns True.
Succeed ==
    /\ stage = "syncing"
    /\ Release
    /\ sequence' = sequence + 1
    /\ healthy' = TRUE
    /\ UNCHANGED <<files, session, forgotten>>

\* Fault: the sequence number of an event that failed is used up.
FailCounting ==
    /\ stage # "free"
    /\ Release
    /\ sequence' = sequence + 1
    /\ healthy' = FALSE
    /\ UNCHANGED <<files, session, forgotten>>

\* The next step of the lock holder fails: an unsafe or unreadable file, a
\* rotation step, the open, the write or the fsync.  record raises AuditError.
Fail ==
    /\ stage # "free"
    /\ Release
    /\ healthy' = FALSE
    /\ UNCHANGED <<files, sequence, session, forgotten>>

\* The process ends, and a new AuditLogger opens the same directory.
NewSession ==
    /\ session < MaxSessions
    /\ session' = session + 1
    /\ Release
    /\ sequence' = 0
    /\ healthy' = TRUE
    /\ UNCHANGED <<files, forgotten>>

-----------------------------------------------------------------------------
(* Properties of the files.                                                *)

\* The retained lines, from the oldest archive to the active file.
Retention == FlattenSeq([i \in 1..Retained |-> files[Retained - i]])

Ledger == INSTANCE RetainedLog WITH log <- Retention

\* Rotation never reorders the log and never loses anything but its oldest end,
\* through failing rotations, their repetition and the end of the process.
RetainsInOrder == Ledger!Spec

\* No file outgrows max_file_bytes.
SizeBounded == \A i \in Slots : Len(files[i]) <= MaxFile

\* Within a session the numbers of what was written never go back and never leave
\* a gap, so that a missing number betrays a removed event; the next number is
\* the one after the last, unless the last was written and not acknowledged.
NumberedWithoutGap ==
    /\ \A i \in 1..Len(Retention)-1 :
          LET a == Retention[i]
              b == Retention[i + 1]
          IN  IF a.session = b.session THEN b.seq - a.seq \in {0, 1}
              ELSE a.session < b.session /\ b.seq = 1
    /\ Retention # <<>> /\ Last(Retention).session = session =>
          sequence - Last(Retention).seq \in {-1, 0}

=============================================================================
