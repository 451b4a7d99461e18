------------------------- MODULE DeviceStoreProofs -------------------------
(* Proofs about DeviceStore, for every set of builds, every number of jobs,  *)
(* rows, faults, lies, lost keys, deaths and replaced builds.                *)
EXTENDS DeviceStore, TLAPS

----------------------------------------------------------------------------
(* The inductive invariant *)

Steps == {"queued", "key", "open", "migrate", "run", "native", "rotated", "done"}

JobType == [op : {"none", "write", "maintain", "delete"}, at : Steps,
            key : Nat, oldKey : Nat, upTo : Nat, held : Nat, from : Nat]

FileType == [gen : Nat, key : Nat, schema : Nat, rows : SUBSET Nat]

TypeInv ==
  /\ build \in Builds
  /\ locked \in BOOLEAN /\ lost \in BOOLEAN
  /\ vault \in Nat /\ keys \in Nat
  /\ file \in FileType /\ files \in Nat
  /\ handle \in [is : {"none", "open", "closed"}, gen : Nat]
  /\ native \in Nat
  /\ queue \in Seq(JobType)
  /\ rows \in Nat /\ acked \in SUBSET Nat /\ given \in SUBSET Nat
  /\ gone \in [upTo : Nat, keys : SUBSET Nat]
  /\ lied \in BOOLEAN
  /\ budget \in [Events -> Nat]

\* Keys are made one after the other, and only a key can be lost.
KeysInv ==
  /\ vault <= keys /\ file.key <= keys
  /\ lost => vault # 0
  /\ gone.keys \subseteq 1..keys

\* Rows are made one after the other; they are in a file with a schema, under a key.
RowsInv ==
  /\ acked \subseteq 1..rows /\ file.rows \subseteq 1..rows /\ gone.upTo <= rows
  /\ file.rows # {} => file.key # 0 /\ file.schema # 0
  /\ file.key # 0 => file.gen # 0

\* A connection in use is on the file there is, which opens with the key there is.
OnFile(gen) ==
  /\ gen = file.gen /\ file.gen # 0
  /\ file.key = vault /\ vault # 0
  /\ file.schema = build

ConnInv ==
  /\ handle.is = "open" => OnFile(handle.gen)
  /\ native # 0 => OnFile(native)

Idle(job) == job.at \in {"queued", "done"}
Opening == {"key", "open", "migrate"}

\* Opening: there is no handle, and the key it reads stays the key of the vault.
OpeningInv(job) ==
  /\ job.at \in Opening => handle.is # "open"
  /\ job.at \in {"open", "migrate"} => job.key = vault /\ vault # 0
  /\ job.at = "migrate" => file.gen # 0 /\ file.key = job.key

\* Deleting: the key held when it began is the old one, or cannot be read; and it is
\* not the one the new store opens with.
DeletingInv(job) ==
  /\ job.op = "delete" => ~locked /\ job.at # "run"
  /\ job.at \in {"native", "rotated"} => job.op = "delete"
  /\ job.op = "delete" /\ ~Idle(job) =>
       /\ handle.is # "open"
       /\ job.upTo <= rows
       /\ job.held \in 1..keys
  /\ job.at = "native" => vault = job.held /\ (job.oldKey = job.held \/ lost)
  /\ job.at = "rotated" => vault # job.held \/ job.oldKey = job.held \/ lost
  /\ job.op = "delete" /\ job.at \in Opening => vault # job.held /\ vault # 0
  /\ job.op = "delete" /\ job.at = "migrate" /\ job.from = 0 => file.rows \cap 1..job.upTo = {}

JobInv(job) == OpeningInv(job) /\ DeletingInv(job)

\* One job at a time is under way, the first that is not done.
QueueInv ==
  \A i \in DOMAIN queue : /\ JobInv(queue[i])
                          /\ ~Idle(queue[i]) => HasTurn(i)

SafeInv == StoredIsKept /\ DeletedIsGone /\ UnderItsKey

StoreInv == TypeInv /\ KeysInv /\ RowsInv /\ ConnInv /\ QueueInv /\ SafeInv

USE BuildAssumption, BudgetAssumption

----------------------------------------------------------------------------
(* The queue *)

LEMMA DoneIsDone == Done \in JobType /\ Done.at = "done" /\ Done.op = "none"
BY DEF Done, Job, JobType, Steps

LEMMA FreshJob ==
  ASSUME NEW op \in {"write", "maintain", "delete"}
  PROVE  Job(op) \in JobType /\ Job(op).at = "queued" /\ Job(op).op = op
BY DEF Job, JobType, Steps

(* While a job has its turn and is not done, no other one is under way.      *)
LEMMA OneUnderWay ==
  ASSUME QueueInv, NEW i \in DOMAIN queue, HasTurn(i), queue[i].at # "done",
         queue \in Seq(JobType), NEW k \in DOMAIN queue, k # i
  PROVE  Idle(queue[k])
<1>1. i \in Nat /\ k \in Nat /\ i >= 1 /\ k >= 1
  OBVIOUS
<1>2. CASE k < i
  <2>1. queue[k] = Done
    BY <1>1, <1>2 DEF HasTurn
  <2> QED BY <2>1, DoneIsDone DEF Idle
<1>3. CASE i < k
  <2> SUFFICES ASSUME ~Idle(queue[k]) PROVE FALSE
    OBVIOUS
  <2>1. HasTurn(k)
    BY DEF QueueInv
  <2>2. queue[i] = Done
    BY <1>1, <1>3, <2>1 DEF HasTurn
  <2> QED BY <2>2, DoneIsDone
<1> QED BY <1>1, <1>2, <1>3

(* The job that has its turn goes on: the others wait or are done.           *)
LEMMA Advance ==
  ASSUME TypeInv, QueueInv, NEW i \in DOMAIN queue, HasTurn(i), queue[i].at # "done",
         NEW job \in JobType, queue' = [queue EXCEPT ![i] = job],
         locked' = locked, JobInv(job)'
  PROVE  queue' \in Seq(JobType) /\ QueueInv'
<1>1. queue \in Seq(JobType)
  BY DEF TypeInv
<1>2. /\ queue' \in Seq(JobType) /\ DOMAIN queue' = DOMAIN queue
      /\ queue'[i] = job
      /\ \A k \in DOMAIN queue : k # i => queue'[k] = queue[k]
  BY <1>1
<1>3. HasTurn(i)'
  <2>1. \A j \in 1..(i - 1) : j \in DOMAIN queue /\ j # i
    BY <1>1
  <2> QED BY <1>2, <2>1 DEF HasTurn
<1>4. ASSUME NEW k \in DOMAIN queue'
      PROVE  JobInv(queue[k])' /\ (~Idle(queue[k]) => HasTurn(k))'
  <2>1. CASE k = i
    BY <1>2, <1>3, <2>1
  <2>2. CASE k # i
    <3>1. Idle(queue[k]) /\ JobInv(queue[k]) /\ queue'[k] = queue[k]
      BY <1>1, <1>2, <2>2, OneUnderWay DEF QueueInv
    <3>2. Idle(queue[k])'
      BY <3>1 DEF Idle
    <3>3. JobInv(queue[k])'
      BY <3>1 DEF Idle, JobInv, OpeningInv, DeletingInv, Opening
    <3> QED BY <3>2, <3>3
  <2> QED BY <2>1, <2>2
<1> QED BY <1>2, <1>4 DEF QueueInv

LEMMA Settles ==
  ASSUME TypeInv, QueueInv, NEW i \in DOMAIN queue, HasTurn(i), queue[i].at # "done",
         Settle(i), locked' = locked
  PROVE  queue' \in Seq(JobType) /\ QueueInv'
<1>1. JobInv(Done)'
  BY DoneIsDone DEF JobInv, OpeningInv, DeletingInv, Opening, Idle
<1> QED BY <1>1, Advance, DoneIsDone DEF Settle

(* A step of somebody else leaves every job what it was.                     *)
LEMMA Waits ==
  ASSUME TypeInv, QueueInv, queue' = queue,
         \A job \in JobType : JobInv(job) => JobInv(job)'
  PROVE  QueueInv'
<1>1. queue \in Seq(JobType)
  BY DEF TypeInv
<1>2. ASSUME NEW k \in DOMAIN queue'
      PROVE  JobInv(queue[k])' /\ (~Idle(queue[k]) => HasTurn(k))'
  <2>1. k \in DOMAIN queue /\ queue[k] \in JobType
    BY <1>1
  <2>2. PICK job \in JobType : job = queue[k]
    BY <2>1
  <2>3. JobInv(job) /\ queue'[k] = job
    BY <2>1, <2>2 DEF QueueInv
  <2>4. JobInv(job)'
    BY <2>3
  <2>5. JobInv(queue[k])'
    BY <2>3, <2>4 DEF JobInv, OpeningInv, DeletingInv, Opening, Idle
  <2>6. (~Idle(queue[k]) => HasTurn(k))'
    BY <2>1 DEF QueueInv, HasTurn, Idle
  <2> QED BY <2>5, <2>6
<1> QED BY <1>2 DEF QueueInv

----------------------------------------------------------------------------
(* What the steps do to the file, the key and the rows                       *)

LEMMA Spent ==
  ASSUME TypeInv, NEW event \in Events, Spend(event)
  PROVE  budget' \in [Events -> Nat]
BY DEF TypeInv, Spend

(* Only the queue and the budget change.                                     *)
LEMMA OnlyQueued ==
  ASSUME StoreInv, UNCHANGED <<device, disk, handle, native, rows, history>>,
         queue' \in Seq(JobType), QueueInv', budget' \in [Events -> Nat]
  PROVE  StoreInv'
<1> USE DEF device, disk, history
<1>1. TypeInv'
  BY DEF StoreInv, TypeInv
<1>2. KeysInv' /\ RowsInv'
  BY DEF StoreInv, KeysInv, RowsInv
<1>3. ConnInv'
  BY DEF StoreInv, ConnInv, OnFile
<1>4. SafeInv'
  BY DEF StoreInv, SafeInv, StoredIsKept, DeletedIsGone, UnderItsKey
<1> QED BY <1>1, <1>2, <1>3, <1>4 DEF StoreInv

(* Reading the key makes one if there is none.                               *)
LEMMA KeyFacts ==
  ASSUME StoreInv
  PROVE  /\ KeyNow \in Nat \ {0}
         /\ vault # 0 => KeyNow = vault
         /\ vault = 0 => KeyNow = keys + 1
         /\ KeyNow \notin gone.keys
         /\ file.rows # {} => file.key # 0
         /\ native # 0 \/ handle.is = "open" => file.key # 0 /\ file.key = vault
BY DEF StoreInv, TypeInv, KeysInv, RowsInv, ConnInv, OnFile, SafeInv, DeletedIsGone, KeyNow, FileType

LEMMA KeyRead ==
  ASSUME StoreInv, GetKey, UNCHANGED <<disk, handle, native, rows, history>>,
         queue' \in Seq(JobType), QueueInv', budget' \in [Events -> Nat]
  PROVE  StoreInv'
<1> USE DEF disk, history
<1>1. /\ vault' = KeyNow /\ locked' = locked /\ lost' = lost
      /\ keys' \in Nat /\ keys <= keys' /\ vault' <= keys'
      /\ vault # 0 => vault' = vault
  BY KeyFacts DEF StoreInv, TypeInv, KeysInv, GetKey, KeyNow
<1>2. TypeInv'
  BY <1>1, KeyFacts DEF StoreInv, TypeInv
<1>3. KeysInv'
  <2>1. file.key <= keys /\ gone.keys \subseteq 1..keys /\ file.key \in Nat /\ keys \in Nat
    BY DEF StoreInv, TypeInv, KeysInv, FileType
  <2>2. file'.key <= keys' /\ gone'.keys \subseteq 1..keys'
    BY <1>1, <2>1
  <2> QED BY <1>1, <2>2, KeyFacts DEF KeysInv
<1>4. RowsInv'
  BY DEF StoreInv, RowsInv
<1>5. ConnInv'
  BY <1>1 DEF StoreInv, ConnInv, OnFile
<1>6. SafeInv'
  <2>1. StoredIsKept'
    <3>1. ASSUME NEW r \in acked \ given PROVE r \in file.rows /\ file.key = vault'
      <4>1. r \in file.rows /\ file.key = vault
        BY <3>1 DEF StoreInv, SafeInv, StoredIsKept
      <4> QED BY <1>1, <4>1, KeyFacts
    <3> QED BY <3>1 DEF StoredIsKept
  <2>2. DeletedIsGone'
    BY <1>1, KeyFacts DEF StoreInv, SafeInv, DeletedIsGone
  <2>3. UnderItsKey'
    BY <1>1 DEF StoreInv, SafeInv, UnderItsKey
  <2> QED BY <2>1, <2>2, <2>3 DEF SafeInv
<1> QED BY <1>2, <1>3, <1>4, <1>5, <1>6 DEF StoreInv

\* What opening leaves of the file under a key: created if absent, and perhaps keyed.
Touched(key) ==
  /\ file' = FileAt \/ (file' = Keyed(key) /\ key # 0 /\ file.key \in {0, key})
  /\ TouchFile

LEMMA FileAtType ==
  ASSUME TypeInv
  PROVE  FileAt \in FileType
<1>1. CASE file.gen = 0
  <2>1. PICK n \in Nat : n = files + 1
    BY DEF TypeInv
  <2>2. FileAt = [gen |-> n, key |-> 0, schema |-> 0, rows |-> {}]
    BY <1>1, <2>1 DEF FileAt, NoFile
  <2> QED BY <2>2 DEF FileType
<1>2. CASE file.gen # 0
  BY <1>2 DEF FileAt, TypeInv
<1> QED BY <1>1, <1>2

LEMMA TouchedFacts ==
  ASSUME TypeInv, RowsInv, NEW key \in Nat, Touched(key)
  PROVE  /\ file' \in FileType /\ files' \in Nat
         /\ file'.gen # 0
         /\ file.gen # 0 => file'.gen = file.gen
         /\ file'.schema = file.schema \/ (file.gen = 0 /\ file'.schema = 0)
         /\ file'.rows = file.rows
         /\ file'.key = file.key \/ (file.key = 0 /\ file'.key = key)
<1>1. CASE file.gen = 0
  <2>1. file.rows = {} /\ file.key = 0
    BY <1>1 DEF RowsInv
  <2>2. FileAt = [gen |-> files + 1, key |-> 0, schema |-> 0, rows |-> {}]
    BY <1>1 DEF FileAt, NoFile
  <2>3. Keyed(key) = [gen |-> files + 1, key |-> key, schema |-> 0, rows |-> {}]
    BY <2>2 DEF Keyed
  <2>4. files \in Nat /\ files' = files + 1
    BY <1>1 DEF TypeInv, Touched, TouchFile
  <2>5. CASE file' = FileAt
    BY <1>1, <2>1, <2>2, <2>4, <2>5 DEF FileType
  <2>6. CASE file' = Keyed(key)
    BY <1>1, <2>1, <2>3, <2>4, <2>6 DEF FileType
  <2> QED BY <2>5, <2>6 DEF Touched
<1>2. CASE file.gen # 0
  BY <1>2 DEF TypeInv, Touched, TouchFile, FileAt, Keyed, FileType
<1> QED BY <1>1, <1>2

LEMMA FileTouched ==
  ASSUME StoreInv, Touched(vault), UNCHANGED <<device, build, handle, native, rows, history>>,
         queue' \in Seq(JobType), QueueInv', budget' \in [Events -> Nat]
  PROVE  StoreInv'
<1> USE DEF device, history
<1>0. vault \in Nat /\ TypeInv /\ RowsInv
  BY DEF StoreInv, TypeInv
<1>1. /\ file' \in FileType /\ files' \in Nat /\ file'.gen # 0
      /\ file.gen # 0 => file'.gen = file.gen
      /\ file'.schema = file.schema \/ (file.gen = 0 /\ file'.schema = 0)
      /\ file'.rows = file.rows
      /\ file'.key = file.key \/ (file.key = 0 /\ file'.key = vault)
  BY <1>0, TouchedFacts
<1>2. TypeInv'
  BY <1>1 DEF StoreInv, TypeInv
<1>3. KeysInv'
  BY <1>1 DEF StoreInv, KeysInv
<1>4. RowsInv'
  BY <1>1 DEF StoreInv, RowsInv
<1>5. ConnInv'
  BY <1>1 DEF StoreInv, ConnInv, OnFile
<1>6. SafeInv'
  <2>1. StoredIsKept'
    <3>1. ASSUME NEW r \in acked \ given PROVE r \in file'.rows /\ file'.key = vault
      <4>1. r \in file.rows /\ file.key = vault
        BY <3>1 DEF StoreInv, SafeInv, StoredIsKept
      <4> QED BY <1>1, <4>1
    <3> QED BY <3>1 DEF StoredIsKept
  <2>2. DeletedIsGone'
    BY <1>1 DEF StoreInv, SafeInv, DeletedIsGone
  <2>3. UnderItsKey'
    BY <1>1 DEF StoreInv, SafeInv, UnderItsKey
  <2> QED BY <2>1, <2>2, <2>3 DEF SafeInv
<1> QED BY <1>2, <1>3, <1>4, <1>5, <1>6 DEF StoreInv

(* A row is stored on the file there is.                                     *)
LEMMA RowStored ==
  ASSUME StoreInv, NEW gen, OnFile(gen), Store(gen),
         UNCHANGED <<device, build, files, handle, native>>,
         queue' \in Seq(JobType), QueueInv'
  PROVE  StoreInv'
<1> USE DEF device
<1>1. /\ rows \in Nat /\ rows' = rows + 1 /\ acked' = acked \cup {rows + 1}
      /\ file \in FileType /\ file' = [file EXCEPT !.rows = @ \cup {rows + 1}]
      /\ UNCHANGED <<given, gone, lied>>
  BY DEF Store, OnFile, StoreInv, TypeInv
<1>2. /\ file' \in FileType /\ file'.rows = file.rows \cup {rows + 1}
      /\ file'.gen = file.gen /\ file'.key = file.key /\ file'.schema = file.schema
  BY <1>1 DEF FileType
<1>3. budget' \in [Events -> Nat]
  <2>1. "rows" \in Events /\ Spend("rows") /\ TypeInv
    BY DEF Events, Store, StoreInv
  <2> QED BY <2>1, Spent
<1>4. TypeInv'
  <2>1. rows' \in Nat /\ acked' \in SUBSET Nat
    BY <1>1 DEF StoreInv, TypeInv
  <2> QED BY <1>1, <1>2, <1>3, <2>1 DEF StoreInv, TypeInv
<1>5. KeysInv'
  BY <1>1, <1>2 DEF StoreInv, KeysInv
<1>6. RowsInv'
  <2>1. acked \subseteq 1..rows /\ file.rows \subseteq 1..rows /\ gone.upTo <= rows /\ gone.upTo \in Nat
    BY DEF StoreInv, RowsInv, TypeInv
  <2>2. 1..(rows + 1) = (1..rows) \cup {rows + 1}
    BY <1>1
  <2>3. acked' \subseteq 1..rows' /\ file'.rows \subseteq 1..rows' /\ gone'.upTo <= rows'
    BY <1>1, <1>2, <2>1, <2>2
  <2>4. file'.key # 0 /\ file'.schema # 0 /\ file'.gen # 0
    BY <1>2, BuildAssumption DEF OnFile, StoreInv, TypeInv
  <2> QED BY <2>3, <2>4 DEF RowsInv
<1>7. ConnInv'
  BY <1>1, <1>2 DEF StoreInv, ConnInv, OnFile
<1>8. SafeInv'
  <2>1. StoredIsKept'
    <3>1. ASSUME NEW r \in acked' \ given' PROVE r \in file'.rows /\ file'.key = vault'
      <4>1. CASE r = rows + 1
        BY <1>1, <1>2, <4>1 DEF OnFile
      <4>2. CASE r # rows + 1
        <5>1. r \in acked \ given
          BY <1>1, <3>1, <4>2
        <5>2. r \in file.rows /\ file.key = vault
          BY <5>1 DEF StoreInv, SafeInv, StoredIsKept
        <5> QED BY <1>1, <1>2, <5>2
      <4> QED BY <4>1, <4>2
    <3> QED BY <3>1 DEF StoredIsKept
  <2>2. DeletedIsGone'
    <3>1. gone.upTo <= rows /\ gone.upTo \in Nat /\ file.rows \cap 1..gone.upTo = {} /\ vault \notin gone.keys
      BY DEF StoreInv, RowsInv, TypeInv, SafeInv, DeletedIsGone
    <3>2. rows + 1 \notin 1..gone.upTo
      BY <1>1, <3>1
    <3> QED BY <1>1, <1>2, <3>1, <3>2 DEF DeletedIsGone
  <2>3. UnderItsKey'
    BY <1>1, <1>2 DEF StoreInv, SafeInv, UnderItsKey
  <2> QED BY <2>1, <2>2, <2>3 DEF SafeInv
<1> QED BY <1>4, <1>5, <1>6, <1>7, <1>8 DEF StoreInv

----------------------------------------------------------------------------
(* The steps of the queue                                                    *)

(* A job is asked for.                                                       *)
LEMMA AskKeeps ==
  ASSUME StoreInv, NEW op \in {"write", "maintain", "delete"}, Ask(op), op = "delete" => ~locked
  PROVE  StoreInv'
<1>1. queue \in Seq(JobType) /\ Job(op) \in JobType /\ queue' = Append(queue, Job(op))
  BY FreshJob DEF Ask, StoreInv, TypeInv
<1>2. queue' \in Seq(JobType)
  BY <1>1
<1>3. /\ DOMAIN queue' = 1..(Len(queue) + 1)
      /\ \A k \in DOMAIN queue : queue'[k] = queue[k]
      /\ queue'[Len(queue) + 1] = Job(op)
  BY <1>1
<1>4. UNCHANGED <<device, disk, handle, native, rows, history>>
  BY DEF Ask
<1>5. QueueInv'
  <2>1. ASSUME NEW k \in DOMAIN queue' PROVE JobInv(queue[k])' /\ (~Idle(queue[k]) => HasTurn(k))'
    <3>1. CASE k \in DOMAIN queue
      <4>1. queue'[k] = queue[k] /\ JobInv(queue[k]) /\ (~Idle(queue[k]) => HasTurn(k))
        BY <1>3, <3>1 DEF StoreInv, QueueInv
      <4>2. JobInv(queue[k])'
        BY <1>4, <4>1 DEF JobInv, OpeningInv, DeletingInv, Opening, Idle, device, disk, history
      <4>3. \A j \in 1..(k - 1) : j \in DOMAIN queue
        BY <1>1, <3>1
      <4>4. (~Idle(queue[k]) => HasTurn(k))'
        BY <1>3, <4>1, <4>3 DEF Idle, HasTurn
      <4> QED BY <4>2, <4>4
    <3>2. CASE k = Len(queue) + 1
      <4>1. queue'[k].at = "queued" /\ queue'[k].op = op /\ locked' = locked
        BY <1>3, <1>4, <3>2, FreshJob DEF device
      <4> QED BY <4>1 DEF JobInv, OpeningInv, DeletingInv, Opening, Idle
    <3> QED BY <1>1, <1>3, <3>1, <3>2
  <2> QED BY <2>1 DEF QueueInv
<1>6. budget' \in [Events -> Nat]
  BY Spent DEF Ask, StoreInv, Events
<1> QED BY <1>2, <1>4, <1>5, <1>6, OnlyQueued

\* What a step of the job whose turn it is may rely on.
LEMMA TurnFacts ==
  ASSUME StoreInv, NEW i \in DOMAIN queue, NEW step \in Steps, At(i, step)
  PROVE  /\ HasTurn(i) /\ queue[i].at = step
         /\ queue[i] \in JobType /\ JobInv(queue[i])
         /\ TypeInv /\ QueueInv
BY DEF StoreInv, TypeInv, QueueInv, At

(* opened(): the job goes on with the handle, or opens the store first.      *)
LEMMA OpenedKeeps ==
  ASSUME StoreInv, NEW i \in DOMAIN queue, Opened(i)
  PROVE  StoreInv'
<1>1. HasTurn(i) /\ queue[i].at = "queued" /\ queue[i] \in JobType /\ TypeInv /\ QueueInv
  BY TurnFacts DEF Opened, Steps
<1>2. PICK step \in {"key", "run"} : /\ Go(i, step)
                                     /\ step = "key" => handle.is = "none"
  BY DEF Opened
<1>3. PICK job : job = [queue[i] EXCEPT !.at = step]
  OBVIOUS
<1>4. job \in JobType /\ job.at = step /\ job.op = queue[i].op /\ job.op # "delete"
  BY <1>1, <1>2, <1>3 DEF JobType, Steps, Opened
<1>5. queue' = [queue EXCEPT ![i] = job]
  BY <1>2, <1>3 DEF Go
<1>6. UNCHANGED <<device, disk, handle, native, rows, history, budget>>
  BY DEF Opened
<1>7. JobInv(job)'
  BY <1>2, <1>4, <1>6 DEF JobInv, OpeningInv, DeletingInv, Opening, Idle
<1>8. locked' = locked /\ queue[i].at # "done"
  BY <1>1, <1>6 DEF device
<1>9. queue' \in Seq(JobType) /\ QueueInv'
  BY <1>1, <1>4, <1>5, <1>7, <1>8, Advance
<1>10. budget' \in [Events -> Nat]
  BY <1>1, <1>6 DEF TypeInv
<1> QED BY <1>6, <1>9, <1>10, OnlyQueued

(* openStore reads the key.                                                  *)
LEMMA ReadKeyKeeps ==
  ASSUME StoreInv, NEW i \in DOMAIN queue, ReadKey(i)
  PROVE  StoreInv'
<1>1. /\ HasTurn(i) /\ queue[i].at = "key" /\ queue[i] \in JobType /\ JobInv(queue[i])
      /\ TypeInv /\ QueueInv
  BY TurnFacts DEF ReadKey, Steps
<1>2. UNCHANGED <<disk, handle, native, rows, history, budget>> /\ budget' \in [Events -> Nat]
  BY <1>1 DEF ReadKey, TypeInv
<1>3. locked' = locked /\ queue[i].at # "done"
  BY <1>1 DEF ReadKey, GetKey, device
<1>4. CASE KeyReadable /\ GetKey /\ queue' = [queue EXCEPT ![i].at = "open", ![i].key = KeyNow]
  <2>1. PICK job : job = [queue[i] EXCEPT !.at = "open", !.key = KeyNow]
    OBVIOUS
  <2>2. /\ job \in JobType /\ job.at = "open" /\ job.key = KeyNow
        /\ job.op = queue[i].op /\ job.upTo = queue[i].upTo /\ job.held = queue[i].held
    BY <1>1, <2>1, KeyFacts DEF JobType, Steps
  <2>3. queue' = [queue EXCEPT ![i] = job]
    BY <1>4, <2>1
  <2>4. /\ handle' = handle /\ rows' = rows /\ vault' = KeyNow /\ KeyNow # 0
        /\ vault # 0 => vault' = vault
        /\ keys \in Nat /\ keys' \in Nat /\ keys <= keys'
    BY <1>1, <1>2, <1>4, KeyFacts DEF GetKey, TypeInv
  <2>5. JobInv(job)'
    <3>1. OpeningInv(job)'
      BY <1>1, <2>2, <2>4 DEF JobInv, OpeningInv, Opening
    <3>2. job.op = "delete" => handle.is # "open" /\ job.upTo <= rows /\ job.held \in 1..keys /\ vault # job.held /\ vault # 0 /\ ~locked
      BY <1>1, <2>2 DEF JobInv, DeletingInv, Opening, Idle
    <3>3. DeletingInv(job)'
      BY <1>3, <2>2, <2>4, <3>2 DEF DeletingInv, Opening, Idle
    <3> QED BY <3>1, <3>3 DEF JobInv
  <2>6. queue' \in Seq(JobType) /\ QueueInv'
    BY <1>1, <1>3, <2>2, <2>3, <2>5, Advance
  <2> QED BY <1>2, <1>4, <2>6, KeyRead
<1>5. CASE Settle(i) /\ UNCHANGED device
  <2>1. queue' \in Seq(JobType) /\ QueueInv'
    BY <1>1, <1>3, <1>5, Settles
  <2> QED BY <1>2, <1>5, <2>1, OnlyQueued
<1> QED BY <1>4, <1>5 DEF ReadKey

(* The driver or a check of openStore fails.                                 *)
LEMMA OpenFailsKeeps ==
  ASSUME StoreInv, NEW i \in DOMAIN queue, OpenFails(i)
  PROVE  StoreInv'
<1>1. /\ HasTurn(i) /\ queue[i].at = "open" /\ queue[i] \in JobType /\ JobInv(queue[i])
      /\ TypeInv /\ QueueInv
  BY TurnFacts DEF OpenFails, Steps
<1>2. queue[i].key = vault /\ vault # 0
  BY <1>1 DEF JobInv, OpeningInv
<1>3. Touched(vault)
  BY <1>2 DEF OpenFails, Touched, Decrypts
<1>4. budget' \in [Events -> Nat]
  BY <1>1, Spent DEF OpenFails, TypeInv, Events
<1>5. UNCHANGED <<build, device, handle, native, rows, history>> /\ locked' = locked /\ Settle(i)
  BY DEF OpenFails, device
<1>6. queue' \in Seq(JobType) /\ QueueInv'
  BY <1>1, <1>5, Settles
<1> QED BY <1>3, <1>4, <1>5, <1>6, FileTouched

(* The file decrypts: it is migrated next, unless a newer build made it.     *)
LEMMA VerifiedKeeps ==
  ASSUME StoreInv, NEW i \in DOMAIN queue, Verified(i)
  PROVE  StoreInv'
<1>1. /\ HasTurn(i) /\ queue[i].at = "open" /\ queue[i] \in JobType /\ JobInv(queue[i])
      /\ TypeInv /\ QueueInv /\ RowsInv
  BY TurnFacts DEF Verified, Steps, StoreInv
<1>2. queue[i].key = vault /\ vault # 0 /\ vault \in Nat
  BY <1>1 DEF JobInv, OpeningInv, TypeInv
<1>3. Touched(vault) /\ file' = Keyed(vault)
  BY <1>2 DEF Verified, Touched, Decrypts
<1>4. UNCHANGED <<build, device, handle, native, rows, history, budget>> /\ locked' = locked
  BY DEF Verified, device
<1>5. budget' \in [Events -> Nat]
  BY <1>1, <1>4 DEF TypeInv
<1>6. queue' \in Seq(JobType) /\ QueueInv'
  <2>1. CASE Settle(i)
    BY <1>1, <1>4, <2>1, Settles
  <2>2. CASE queue' = [queue EXCEPT ![i].at = "migrate", ![i].from = file.schema]
    <3>1. PICK job : job = [queue[i] EXCEPT !.at = "migrate", !.from = file.schema]
      OBVIOUS
    <3>2. /\ job \in JobType /\ job.at = "migrate" /\ job.from = file.schema /\ job.key = queue[i].key
          /\ job.op = queue[i].op /\ job.upTo = queue[i].upTo /\ job.held = queue[i].held
      BY <1>1, <3>1 DEF JobType, Steps, TypeInv, FileType
    <3>3. queue' = [queue EXCEPT ![i] = job]
      BY <2>2, <3>1
    <3>4. file'.gen # 0 /\ file'.rows = file.rows /\ file'.key = vault
      <4>1. file'.gen # 0 /\ file'.rows = file.rows
        BY <1>1, <1>2, <1>3, TouchedFacts
      <4>2. FileAt \in FileType
        BY <1>1, FileAtType
      <4>3. file'.key = vault
        BY <1>3, <4>2 DEF Keyed, FileType
      <4> QED BY <4>1, <4>3
    <3>5. job.from = 0 => file'.rows = {}
      BY <1>1, <3>2, <3>4 DEF RowsInv
    <3>6. OpeningInv(job)'
      BY <1>1, <1>2, <1>4, <3>2, <3>4 DEF JobInv, OpeningInv, Opening, device
    <3>7. job.op = "delete" => handle.is # "open" /\ job.upTo <= rows /\ job.held \in 1..keys /\ vault # job.held /\ ~locked
      BY <1>1, <3>2 DEF JobInv, DeletingInv, Opening, Idle
    <3>8. DeletingInv(job)'
      BY <1>2, <1>4, <3>2, <3>5, <3>7 DEF DeletingInv, Opening, Idle, device
    <3> QED BY <1>1, <1>4, <3>2, <3>3, <3>6, <3>8, Advance DEF JobInv
  <2> QED BY <2>1, <2>2 DEF Verified
<1> QED BY <1>3, <1>4, <1>5, <1>6, FileTouched

(* One migration goes through, or fails.                                     *)
LEMMA MigratesKeeps ==
  ASSUME StoreInv, NEW i \in DOMAIN queue, Migrates(i)
  PROVE  StoreInv'
<1>1. /\ HasTurn(i) /\ queue[i].at = "migrate" /\ queue[i] \in JobType /\ JobInv(queue[i])
      /\ TypeInv /\ QueueInv
  BY TurnFacts DEF Migrates, Steps
<1>2. UNCHANGED <<build, device, files, handle, native, rows, history>> /\ locked' = locked
  BY DEF Migrates, device
<1>3. handle.is # "open" /\ file.gen # 0 /\ file.key = vault /\ vault # 0 /\ native = 0
  BY <1>1 DEF JobInv, OpeningInv, Opening, StoreInv, ConnInv, OnFile, Migrates, TypeInv, FileType
<1>4. CASE file' = [file EXCEPT !.schema = @ + 1] /\ UNCHANGED <<queue, budget>>
  <2>1. /\ file' \in FileType /\ file'.gen = file.gen /\ file'.key = file.key /\ file'.rows = file.rows
        /\ file'.schema # 0
    <3>1. file \in FileType /\ file.schema \in Nat
      BY <1>1 DEF TypeInv, FileType
    <3>2. PICK n \in Nat \ {0} : n = file.schema + 1
      BY <3>1
    <3>3. file' = [file EXCEPT !.schema = n]
      BY <1>4, <3>2
    <3> QED BY <3>1, <3>3 DEF FileType
  <2> USE DEF device, history
  <2>2. TypeInv'
    BY <1>1, <1>2, <1>4, <2>1 DEF TypeInv
  <2>3. KeysInv' /\ RowsInv'
    BY <1>2, <2>1 DEF StoreInv, KeysInv, RowsInv
  <2>4. ConnInv'
    BY <1>2, <1>3 DEF ConnInv
  <2>5. SafeInv'
    BY <1>2, <2>1 DEF StoreInv, SafeInv, StoredIsKept, DeletedIsGone, UnderItsKey
  <2>6. QueueInv'
    <3>1. ASSUME NEW job \in JobType, JobInv(job) PROVE JobInv(job)'
      BY <1>2, <2>1, <3>1 DEF JobInv, OpeningInv, DeletingInv, Idle, Opening
    <3> QED BY <1>1, <1>4, <3>1, Waits
  <2> QED BY <2>2, <2>3, <2>4, <2>5, <2>6 DEF StoreInv
<1>5. CASE Spend("faults") /\ Settle(i) /\ UNCHANGED file
  <2>1. queue' \in Seq(JobType) /\ QueueInv'
    BY <1>1, <1>2, <1>5, Settles
  <2>2. budget' \in [Events -> Nat]
    BY <1>1, <1>5, Spent DEF Events
  <2>3. UNCHANGED disk
    BY <1>2, <1>5 DEF disk
  <2> QED BY <1>2, <2>1, <2>2, <2>3, OnlyQueued
<1> QED BY <1>4, <1>5 DEF Migrates

(* The store is open: for a job, or to confirm a delete.                     *)
LEMMA OpenSucceedsKeeps ==
  ASSUME StoreInv, NEW i \in DOMAIN queue, OpenSucceeds(i)
  PROVE  StoreInv'
<1>1. /\ HasTurn(i) /\ queue[i].at = "migrate" /\ queue[i] \in JobType /\ JobInv(queue[i])
      /\ TypeInv /\ QueueInv
  BY TurnFacts DEF OpenSucceeds, Steps
<1>2. /\ UNCHANGED <<device, disk, native, rows, acked, given, lied, budget>>
      /\ locked' = locked /\ file' = file /\ vault' = vault
      /\ file.schema = build
  BY DEF OpenSucceeds, device, disk
<1>3. OnFile(file.gen) /\ file.gen \in Nat
  BY <1>1, <1>2 DEF JobInv, OpeningInv, OnFile, TypeInv, FileType
<1>4. CASE queue[i].op # "delete" /\ handle' = [is |-> "open", gen |-> file.gen] /\ Go(i, "run") /\ UNCHANGED gone
  <2>1. PICK job : job = [queue[i] EXCEPT !.at = "run"]
    OBVIOUS
  <2>2. /\ job \in JobType /\ job.at = "run" /\ job.op = queue[i].op
        /\ queue' = [queue EXCEPT ![i] = job]
    BY <1>1, <1>4, <2>1 DEF JobType, Steps, Go
  <2>3. JobInv(job)'
    BY <1>4, <2>2 DEF JobInv, OpeningInv, DeletingInv, Opening, Idle
  <2>4. queue' \in Seq(JobType) /\ QueueInv'
    BY <1>1, <1>2, <2>2, <2>3, Advance
  <2> USE DEF device, disk
  <2>5. TypeInv'
    BY <1>1, <1>2, <1>3, <1>4, <2>4 DEF TypeInv
  <2>6. KeysInv' /\ RowsInv'
    BY <1>2, <1>4 DEF StoreInv, KeysInv, RowsInv
  <2>7. ConnInv'
    BY <1>2, <1>3, <1>4 DEF StoreInv, ConnInv, OnFile
  <2>8. SafeInv'
    BY <1>2, <1>4 DEF StoreInv, SafeInv, StoredIsKept, DeletedIsGone, UnderItsKey
  <2> QED BY <2>4, <2>5, <2>6, <2>7, <2>8 DEF StoreInv
<1>5. CASE /\ queue[i].op = "delete" /\ queue[i].from = 0
           /\ handle' = [is |-> "open", gen |-> file.gen]
           /\ gone' = [upTo |-> queue[i].upTo, keys |-> gone.keys \cup {queue[i].held}]
           /\ Settle(i)
  <2>1. queue' \in Seq(JobType) /\ QueueInv'
    BY <1>1, <1>2, <1>5, Settles
  <2>2. /\ queue[i].upTo \in Nat /\ queue[i].upTo <= rows
        /\ queue[i].held \in 1..keys /\ vault # queue[i].held
        /\ file.rows \cap 1..queue[i].upTo = {}
    BY <1>1, <1>5 DEF JobInv, DeletingInv, Opening, Idle, JobType
  <2>3. /\ gone'.upTo = queue[i].upTo /\ gone'.keys = gone.keys \cup {queue[i].held}
        /\ gone' \in [upTo : Nat, keys : SUBSET Nat]
    BY <1>1, <1>5, <2>2 DEF TypeInv
  <2> USE DEF device, disk
  <2>4. TypeInv'
    BY <1>1, <1>2, <1>3, <1>5, <2>1, <2>3 DEF TypeInv
  <2>5. KeysInv' /\ RowsInv'
    BY <1>2, <2>2, <2>3 DEF StoreInv, KeysInv, RowsInv
  <2>6. ConnInv'
    BY <1>2, <1>3, <1>5 DEF StoreInv, ConnInv, OnFile
  <2>7. SafeInv'
    BY <1>2, <2>2, <2>3 DEF StoreInv, SafeInv, StoredIsKept, DeletedIsGone, UnderItsKey
  <2> QED BY <2>1, <2>4, <2>5, <2>6, <2>7 DEF StoreInv
<1>6. CASE Settle(i) /\ UNCHANGED <<handle, gone>>
  <2>1. queue' \in Seq(JobType) /\ QueueInv'
    BY <1>1, <1>2, <1>6, Settles
  <2>2. UNCHANGED <<device, disk, handle, native, rows, history>> /\ budget' \in [Events -> Nat]
    BY <1>1, <1>2, <1>6 DEF history, TypeInv
  <2> QED BY <2>1, <2>2, OnlyQueued
<1> QED BY <1>4, <1>5, <1>6 DEF OpenSucceeds

(* The job runs on the handle.                                               *)
LEMMA RunKeeps ==
  ASSUME StoreInv, NEW i \in DOMAIN queue, Run(i)
  PROVE  StoreInv'
<1>1. /\ HasTurn(i) /\ queue[i].at = "run" /\ TypeInv /\ QueueInv
  BY TurnFacts DEF Run, Steps
<1>2. UNCHANGED <<device, build, files, handle, native>> /\ locked' = locked /\ Settle(i)
  BY DEF Run, device
<1>3. queue' \in Seq(JobType) /\ QueueInv'
  BY <1>1, <1>2, Settles
<1>4. CASE handle.is = "open" /\ Store(handle.gen)
  <2>1. OnFile(handle.gen)
    BY <1>4 DEF StoreInv, ConnInv
  <2> QED BY <1>2, <1>3, <1>4, <2>1, RowStored
<1>5. CASE UNCHANGED <<file, rows, history, budget>>
  <2>1. UNCHANGED <<device, disk, handle, native, rows, history>> /\ budget' \in [Events -> Nat]
    BY <1>1, <1>2, <1>5 DEF disk, TypeInv
  <2> QED BY <1>3, <2>1, OnlyQueued
<1> QED BY <1>4, <1>5 DEF Run

(* A delete begins: the handle is closed, and the key held noted.            *)
LEMMA DeleteBeginsKeeps ==
  ASSUME StoreInv, NEW i \in DOMAIN queue, DeleteBegins(i)
  PROVE  StoreInv'
<1>1. /\ HasTurn(i) /\ queue[i].at = "queued" /\ queue[i] \in JobType /\ JobInv(queue[i])
      /\ TypeInv /\ QueueInv
  BY TurnFacts DEF DeleteBegins, Steps
<1>2. /\ queue[i].op = "delete" /\ ~locked
      /\ UNCHANGED <<disk, native, rows, history, budget>>
      /\ budget' \in [Events -> Nat]
  BY <1>1 DEF DeleteBegins, JobInv, DeletingInv, TypeInv
<1>3. /\ vault' = KeyNow /\ locked' = locked /\ lost' = lost
      /\ keys' \in Nat /\ keys <= keys' /\ KeyNow \in 1..keys'
      /\ KeyReadable \/ lost
      /\ GetKey \/ UNCHANGED device
  <2>1. CASE KeyReadable
    <3>1. GetKey
      BY <2>1 DEF DeleteBegins
    <3>2. keys \in Nat /\ vault \in Nat /\ vault <= keys /\ KeyNow \in Nat \ {0}
      BY KeyFacts DEF StoreInv, KeysInv, TypeInv
    <3>3. keys' = IF vault = 0 THEN keys + 1 ELSE keys
      BY <3>1 DEF GetKey
    <3>4. keys' \in Nat /\ keys <= keys' /\ KeyNow \in 1..keys'
      BY <3>2, <3>3 DEF KeyNow
    <3> QED BY <2>1, <3>1, <3>4 DEF GetKey
  <2>2. CASE ~KeyReadable
    <3>1. lost /\ vault # 0 /\ vault <= keys /\ UNCHANGED device
      BY <1>1, <1>2, <2>2 DEF KeyReadable, StoreInv, KeysInv, TypeInv, DeleteBegins
    <3> QED BY <1>1, <3>1, KeyFacts DEF device, TypeInv
  <2> QED BY <2>1, <2>2
<1>4. PICK old \in Nat : /\ old = IF KeyReadable THEN KeyNow ELSE 0
                         /\ old = KeyNow \/ lost
  BY <1>3, KeyFacts
<1>5. PICK job : job = [queue[i] EXCEPT !.at = "native", !.upTo = rows, !.held = KeyNow, !.oldKey = old]
  OBVIOUS
<1>6. /\ job \in JobType /\ job.at = "native" /\ job.upTo = rows /\ job.held = KeyNow
      /\ job.oldKey = old /\ job.op = "delete"
      /\ queue' = [queue EXCEPT ![i] = job]
  BY <1>1, <1>2, <1>4, <1>5, KeyFacts DEF JobType, Steps, TypeInv, DeleteBegins
<1>7. handle'.is # "open" /\ handle' \in [is : {"none", "open", "closed"}, gen : Nat]
  BY <1>1 DEF DeleteBegins, TypeInv
<1>8. JobInv(job)'
  <2>1. OpeningInv(job)'
    BY <1>6 DEF OpeningInv, Opening
  <2>2. DeletingInv(job)'
    BY <1>1, <1>2, <1>3, <1>4, <1>6, <1>7 DEF DeletingInv, Opening, Idle, TypeInv
  <2> QED BY <2>1, <2>2 DEF JobInv
<1>9. queue' \in Seq(JobType) /\ QueueInv'
  BY <1>1, <1>3, <1>6, <1>8, Advance
<1> USE DEF disk, history
<1>10. TypeInv'
  BY <1>1, <1>2, <1>3, <1>7, <1>9 DEF TypeInv
<1>11. vault # 0 => vault' = vault
  BY <1>3, KeyFacts
<1>12. KeysInv'
  <2>1. file.key <= keys /\ gone.keys \subseteq 1..keys /\ file.key \in Nat /\ keys \in Nat
    BY DEF StoreInv, TypeInv, KeysInv, FileType
  <2>2. file'.key <= keys' /\ gone'.keys \subseteq 1..keys' /\ vault' <= keys'
    BY <1>2, <1>3, <2>1
  <2> QED BY <1>3, <2>2, KeyFacts DEF KeysInv
<1>13. RowsInv'
  BY <1>2 DEF StoreInv, RowsInv
<1>14. ConnInv'
  BY <1>2, <1>7, <1>11 DEF StoreInv, ConnInv, OnFile
<1>15. SafeInv'
  <2>1. StoredIsKept'
    <3>1. ASSUME NEW r \in acked \ given PROVE r \in file.rows /\ file.key = vault'
      <4>1. r \in file.rows /\ file.key = vault
        BY <3>1 DEF StoreInv, SafeInv, StoredIsKept
      <4> QED BY <1>11, <4>1, KeyFacts
    <3> QED BY <1>2, <3>1 DEF StoredIsKept
  <2>2. DeletedIsGone'
    BY <1>2, <1>3, KeyFacts DEF StoreInv, SafeInv, DeletedIsGone
  <2>3. UnderItsKey'
    BY <1>2, <1>11 DEF StoreInv, SafeInv, UnderItsKey
  <2> QED BY <2>1, <2>2, <2>3 DEF SafeInv
<1> QED BY <1>9, <1>10, <1>12, <1>13, <1>14, <1>15 DEF StoreInv

(* A native delete, done, cut off or claimed: no row counts as stored any    *)
(* more, and no connection is left.                                          *)
LEMMA NativeDeleted ==
  ASSUME StoreInv, build' \in Builds, locked' \in BOOLEAN,
         native' = 0, given' = given \cup 1..rows,
         Removed \/ UNCHANGED file, DestroysKey \/ KeepsKey,
         lied' \in BOOLEAN, lied => lied', Removed \/ KeepsKey \/ lied',
         UNCHANGED <<keys, files, rows, acked, gone>>,
         handle' \in [is : {"none", "open", "closed"}, gen : Nat], handle'.is # "open",
         queue' \in Seq(JobType), QueueInv', budget' \in [Events -> Nat]
  PROVE  StoreInv'
<1>1. /\ vault' \in Nat /\ lost' \in BOOLEAN
      /\ vault' = 0 \/ vault' = vault
      /\ lost' => vault' # 0
      /\ vault' <= keys /\ keys \in Nat
  <2>1. /\ vault \in Nat /\ lost \in BOOLEAN /\ (lost => vault # 0)
        /\ vault <= keys /\ keys \in Nat
    BY DEF StoreInv, TypeInv, KeysInv
  <2>2. CASE DestroysKey
    <3>1. vault' = 0 /\ lost' = FALSE
      BY <2>2 DEF DestroysKey
    <3>2. lost' \in BOOLEAN /\ (lost' => vault' # 0)
      BY <3>1, Zenon
    <3> QED BY <2>1, <3>1, <3>2
  <2>3. CASE KeepsKey
    BY <2>1, <2>3 DEF KeepsKey
  <2> QED BY <2>2, <2>3
<1>2. /\ file' \in FileType
      /\ file' = file \/ (file'.rows = {} /\ file'.key = 0 /\ file'.gen = 0)
  BY DEF StoreInv, TypeInv, Removed, NoFile, FileType
<1>3. TypeInv'
  BY <1>1, <1>2 DEF StoreInv, TypeInv
<1>4. KeysInv'
  BY <1>1, <1>2 DEF StoreInv, KeysInv
<1>5. RowsInv'
  BY <1>2 DEF StoreInv, RowsInv, TypeInv
<1>6. ConnInv'
  BY DEF ConnInv
<1>7. StoredIsKept'
  <2>1. acked' \ given' = {}
    BY DEF StoreInv, RowsInv
  <2> QED BY <2>1 DEF StoredIsKept
<1>8. DeletedIsGone'
  <2>1. 0 \notin gone.keys
    BY <1>1 DEF StoreInv, KeysInv
  <2> QED BY <1>1, <1>2, <2>1 DEF StoreInv, SafeInv, DeletedIsGone
<1>9. UnderItsKey'
  BY <1>2 DEF StoreInv, SafeInv, UnderItsKey, KeepsKey, Removed, NoFile
<1> QED BY <1>3, <1>4, <1>5, <1>6, <1>7, <1>8, <1>9 DEF StoreInv, SafeInv

LEMMA NativeDeletesKeeps ==
  ASSUME StoreInv, NEW i \in DOMAIN queue, NativeDeletes(i)
  PROVE  StoreInv'
<1>1. /\ HasTurn(i) /\ queue[i].at = "native" /\ queue[i] \in JobType /\ JobInv(queue[i])
      /\ TypeInv /\ QueueInv
  BY TurnFacts DEF NativeDeletes, Steps
<1>2. /\ native' = 0 /\ given' = given \cup 1..rows
      /\ UNCHANGED <<build, locked, keys, files, handle, rows, acked, gone>>
  BY DEF NativeDeletes
<1>3. /\ queue[i].op = "delete" /\ handle.is # "open" /\ ~locked
      /\ queue[i].upTo <= rows /\ queue[i].held \in 1..keys
      /\ vault = queue[i].held /\ (queue[i].oldKey = queue[i].held \/ lost)
  BY <1>1 DEF JobInv, DeletingInv, Idle
<1>4. /\ build' \in Builds /\ locked' \in BOOLEAN
      /\ handle' \in [is : {"none", "open", "closed"}, gen : Nat] /\ handle'.is # "open"
  BY <1>1, <1>2, <1>3 DEF TypeInv
<1>5. /\ Removed \/ UNCHANGED file
      /\ DestroysKey \/ KeepsKey
      /\ lied' \in BOOLEAN /\ (lied => lied')
      /\ Removed \/ KeepsKey \/ lied'
  <2>1. CASE /\ Removed /\ DestroysKey
             /\ UNCHANGED <<lied, budget>>
    BY <1>1, <2>1 DEF TypeInv
  <2>2. CASE /\ PartWay /\ Spend("faults")
             /\ UNCHANGED lied
    BY <1>1, <2>2 DEF TypeInv, PartWay
  <2>3. CASE /\ Removed \/ UNCHANGED file
             /\ DestroysKey \/ KeepsKey
             /\ lied' = TRUE
    BY <2>3
  <2> QED BY <2>1, <2>2, <2>3 DEF NativeDeletes
<1>6. budget' \in [Events -> Nat]
  BY <1>1, Spent DEF NativeDeletes, TypeInv, Events
<1>7. queue' \in Seq(JobType) /\ QueueInv'
  <2>1. CASE Settle(i)
    BY <1>1, <1>2, <2>1, Settles
  <2>2. CASE Go(i, "rotated")
    <3>1. PICK job : job = [queue[i] EXCEPT !.at = "rotated"]
      OBVIOUS
    <3>2. /\ job \in JobType /\ job.at = "rotated" /\ job.op = "delete"
          /\ job.upTo = queue[i].upTo /\ job.held = queue[i].held /\ job.oldKey = queue[i].oldKey
          /\ queue' = [queue EXCEPT ![i] = job]
      BY <1>1, <1>3, <2>2, <3>1 DEF JobType, Steps, Go
    <3>3. OpeningInv(job)'
      BY <3>2 DEF OpeningInv, Opening
    <3>4. vault' # job.held \/ job.oldKey = job.held \/ lost'
      <4>1. job.held # 0
        BY <1>1, <1>3, <3>2 DEF TypeInv
      <4> QED BY <1>3, <1>5, <3>2, <4>1 DEF DestroysKey, KeepsKey
    <3>5. DeletingInv(job)'
      BY <1>2, <1>3, <3>2, <3>4 DEF DeletingInv, Opening, Idle
    <3> QED BY <1>1, <1>2, <3>2, <3>3, <3>5, Advance DEF JobInv
  <2> QED BY <2>1, <2>2 DEF NativeDeletes
<1> QED BY <1>2, <1>4, <1>5, <1>6, <1>7, NativeDeleted

(* The key that is there must be another one than the one read at the start. *)
LEMMA DeleteChecksKeyKeeps ==
  ASSUME StoreInv, NEW i \in DOMAIN queue, DeleteChecksKey(i)
  PROVE  StoreInv'
<1>1. /\ HasTurn(i) /\ queue[i].at = "rotated" /\ queue[i] \in JobType /\ JobInv(queue[i])
      /\ TypeInv /\ QueueInv
  BY TurnFacts DEF DeleteChecksKey, Steps
<1>2. UNCHANGED <<disk, handle, native, rows, history, budget>> /\ budget' \in [Events -> Nat]
  BY <1>1 DEF DeleteChecksKey, TypeInv
<1>3. locked' = locked
  BY DEF DeleteChecksKey, GetKey, device
<1>4. /\ queue[i].op = "delete" /\ handle.is # "open" /\ ~locked
      /\ queue[i].upTo <= rows /\ queue[i].held \in 1..keys
      /\ vault # queue[i].held \/ queue[i].oldKey = queue[i].held \/ lost
  BY <1>1 DEF JobInv, DeletingInv, Idle
<1>5. queue' \in Seq(JobType) /\ QueueInv'
  <2>1. CASE Settle(i)
    BY <1>1, <1>3, <2>1, Settles
  <2>2. CASE KeyReadable /\ GetKey /\ KeyNow # queue[i].oldKey /\ Go(i, "key")
    <3>1. PICK job : job = [queue[i] EXCEPT !.at = "key"]
      OBVIOUS
    <3>2. /\ job \in JobType /\ job.at = "key" /\ job.op = "delete"
          /\ job.upTo = queue[i].upTo /\ job.held = queue[i].held
          /\ queue' = [queue EXCEPT ![i] = job]
      BY <1>1, <1>4, <2>2, <3>1 DEF JobType, Steps, Go
    <3>3. KeyNow # job.held
      <4>1. CASE vault = queue[i].held
        BY <1>1, <1>4, <2>2, <3>2, <4>1, KeyFacts DEF KeyReadable, TypeInv
      <4>2. CASE vault # queue[i].held
        BY <1>1, <1>4, <3>2, <4>2, KeyFacts DEF TypeInv
      <4> QED BY <4>1, <4>2
    <3>4. job.held \in 1..keys'
      BY <1>1, <1>4, <2>2, <3>2 DEF GetKey, TypeInv
    <3>5. OpeningInv(job)'
      BY <1>2, <1>4, <3>2 DEF OpeningInv, Opening
    <3>6. DeletingInv(job)'
      BY <1>2, <1>3, <1>4, <2>2, <3>2, <3>3, <3>4, KeyFacts DEF DeletingInv, Opening, Idle, GetKey
    <3> QED BY <1>1, <1>3, <3>2, <3>5, <3>6, Advance DEF JobInv
  <2> QED BY <2>1, <2>2 DEF DeleteChecksKey
<1>6. CASE GetKey
  BY <1>2, <1>5, <1>6, KeyRead
<1>7. CASE UNCHANGED device
  BY <1>2, <1>5, <1>7, OnlyQueued
<1> QED BY <1>6, <1>7 DEF DeleteChecksKey

----------------------------------------------------------------------------
(* The native writer, and what happens to the phone                          *)

LEMMA NativeStoresKeeps ==
  ASSUME StoreInv, NativeStores
  PROVE  StoreInv'
<1>1. TypeInv /\ OnFile(native) /\ UNCHANGED <<build, device, files, handle, queue>>
  BY DEF NativeStores, StoreInv, ConnInv
<1>2. CASE Store(native) /\ UNCHANGED native
  <2>1. ASSUME NEW job \in JobType, JobInv(job) PROVE JobInv(job)'
    <3>1. /\ rows \in Nat /\ rows' = rows + 1 /\ file' = [file EXCEPT !.rows = @ \cup {rows + 1}]
          /\ file \in FileType /\ job.upTo \in Nat
      BY <1>1, <1>2 DEF Store, OnFile, TypeInv, JobType
    <3>2. /\ file'.rows = file.rows \cup {rows + 1}
          /\ file'.gen = file.gen /\ file'.key = file.key
      BY <3>1 DEF FileType
    <3>3. OpeningInv(job)'
      BY <1>1, <2>1, <3>2 DEF JobInv, OpeningInv, device
    <3>4. job.upTo <= rows => job.upTo <= rows + 1 /\ rows + 1 \notin 1..job.upTo
      BY <3>1
    <3>5. DeletingInv(job)'
      BY <1>1, <2>1, <3>1, <3>2, <3>4 DEF JobInv, DeletingInv, device, Idle
    <3> QED BY <3>3, <3>5 DEF JobInv
  <2>2. QueueInv' /\ queue' \in Seq(JobType)
    BY <1>1, <2>1, Waits DEF TypeInv, StoreInv
  <2> QED BY <1>1, <1>2, <2>2, RowStored
<1>3. CASE Spend("faults") /\ native' = 0 /\ UNCHANGED <<file, rows, history>>
  <2> USE DEF device, history
  <2>1. budget' \in [Events -> Nat]
    BY <1>1, <1>3, Spent DEF Events
  <2>2. TypeInv'
    BY <1>1, <1>3, <2>1 DEF TypeInv
  <2>3. KeysInv' /\ RowsInv'
    BY <1>1, <1>3 DEF StoreInv, KeysInv, RowsInv
  <2>4. ConnInv'
    BY <1>1, <1>3 DEF StoreInv, ConnInv, OnFile
  <2>5. SafeInv'
    BY <1>1, <1>3 DEF StoreInv, SafeInv, StoredIsKept, DeletedIsGone, UnderItsKey
  <2>6. QueueInv'
    <3>1. ASSUME NEW job \in JobType, JobInv(job) PROVE JobInv(job)'
      BY <1>1, <1>3, <3>1 DEF JobInv, OpeningInv, DeletingInv, Idle, Opening
    <3> QED BY <1>1, <3>1, Waits DEF StoreInv
  <2> QED BY <2>2, <2>3, <2>4, <2>5, <2>6 DEF StoreInv
<1> QED BY <1>2, <1>3 DEF NativeStores

LEMMA NativeOpensKeeps ==
  ASSUME StoreInv, NativeOpens
  PROVE  StoreInv'
<1>0. TypeInv /\ KeysInv /\ RowsInv /\ ConnInv /\ SafeInv
  BY DEF StoreInv
<1>1. /\ native = 0 /\ ~lost /\ ~locked
      /\ UNCHANGED <<build, handle, queue, rows, history, budget>>
  BY DEF NativeOpens, KeyReadable
<1>2. /\ vault' = KeyNow /\ locked' = locked /\ lost' = lost
      /\ keys' \in Nat /\ keys \in Nat /\ keys <= keys' /\ vault' <= keys'
      /\ vault # 0 => vault' = vault
      /\ KeyNow \in Nat \ {0}
      /\ file.key = KeyNow => vault # 0
  BY <1>0, KeyFacts DEF NativeOpens, TypeInv, KeysInv, GetKey, KeyNow, FileType
<1>3. /\ file' \in FileType /\ files' \in Nat
      /\ file.gen # 0 => file'.gen = file.gen
      /\ file'.schema = file.schema \/ (file.gen = 0 /\ file'.schema = 0)
      /\ file'.rows = file.rows
      /\ file'.key = file.key \/ (file.key = 0 /\ file'.key = KeyNow)
      /\ file'.key # 0 => file'.gen # 0
  <2>1. CASE file.key \in {0, KeyNow}
    <3>1. Touched(KeyNow)
      BY <1>2, <2>1 DEF NativeOpens, Touched
    <3> QED BY <1>0, <1>2, <3>1, TouchedFacts
  <2>2. CASE file.key \notin {0, KeyNow}
    BY <1>0, <2>2 DEF NativeOpens, TouchFile, TypeInv, RowsInv
  <2> QED BY <2>1, <2>2
<1>4. /\ native' \in Nat
      /\ native' # 0 => /\ native' = file.gen /\ file.gen # 0
                        /\ file.key = KeyNow /\ file.schema = build
  BY <1>0 DEF NativeOpens, RequiresSchema, TypeInv, FileType
<1> USE DEF history
<1>5. TypeInv'
  BY <1>0, <1>1, <1>2, <1>3, <1>4 DEF TypeInv
<1>6. KeysInv'
  <2>1. file'.key <= keys'
    BY <1>0, <1>2, <1>3 DEF KeysInv, TypeInv, FileType
  <2>2. gone.keys \subseteq 1..keys'
    BY <1>0, <1>2 DEF KeysInv
  <2> QED BY <1>1, <1>2, <2>1, <2>2 DEF KeysInv
<1>7. RowsInv'
  BY <1>0, <1>1, <1>3 DEF RowsInv
<1>8. ConnInv'
  <2>1. handle.is = "open" => OnFile(handle.gen)'
    BY <1>0, <1>1, <1>2, <1>3 DEF ConnInv, OnFile
  <2>2. native' # 0 => OnFile(native)'
    BY <1>1, <1>2, <1>3, <1>4 DEF OnFile
  <2> QED BY <1>1, <2>1, <2>2 DEF ConnInv, OnFile
<1>9. SafeInv'
  <2>1. StoredIsKept'
    <3>1. ASSUME NEW r \in acked \ given PROVE r \in file'.rows /\ file'.key = vault'
      <4>1. r \in file.rows /\ file.key = vault
        BY <1>0, <3>1 DEF SafeInv, StoredIsKept
      <4>2. file.key # 0
        BY <1>0, <4>1 DEF RowsInv
      <4> QED BY <1>2, <1>3, <4>1, <4>2
    <3> QED BY <1>1, <3>1 DEF StoredIsKept
  <2>2. DeletedIsGone'
    BY <1>0, <1>1, <1>2, <1>3, KeyFacts DEF SafeInv, DeletedIsGone
  <2>3. UnderItsKey'
    BY <1>0, <1>1, <1>2, <1>3 DEF SafeInv, UnderItsKey
  <2> QED BY <2>1, <2>2, <2>3 DEF SafeInv
<1>10. QueueInv'
  <2>1. ASSUME NEW job \in JobType, JobInv(job) PROVE JobInv(job)'
    <3>1. OpeningInv(job)'
      BY <1>1, <1>2, <1>3, <2>1 DEF JobInv, OpeningInv, Opening
    <3>2. job.held \in 1..keys => job.held \in 1..keys' /\ (vault # job.held => vault' # job.held)
      BY <1>0, <1>2, KeyFacts DEF TypeInv
    <3>3. DeletingInv(job)'
      BY <1>1, <1>2, <1>3, <2>1, <3>2 DEF JobInv, DeletingInv, Idle, Opening
    <3> QED BY <3>1, <3>3 DEF JobInv
  <2> QED BY <1>0, <1>1, <2>1, Waits DEF StoreInv
<1> QED BY <1>5, <1>6, <1>7, <1>8, <1>9, <1>10 DEF StoreInv

LEMMA KeyLostKeeps ==
  ASSUME StoreInv, KeyLost
  PROVE  StoreInv'
<1>1. /\ lost' = TRUE /\ vault # 0
      /\ UNCHANGED <<locked, vault, keys, disk, handle, native, queue, rows, history>>
  BY DEF KeyLost
<1>2. budget' \in [Events -> Nat]
  BY Spent DEF KeyLost, StoreInv, Events
<1> USE DEF disk, history
<1>3. TypeInv'
  BY <1>1, <1>2 DEF StoreInv, TypeInv
<1>4. KeysInv' /\ RowsInv'
  BY <1>1 DEF StoreInv, KeysInv, RowsInv
<1>5. ConnInv'
  BY <1>1 DEF StoreInv, ConnInv, OnFile
<1>6. SafeInv'
  BY <1>1 DEF StoreInv, SafeInv, StoredIsKept, DeletedIsGone, UnderItsKey
<1>7. QueueInv'
  <2>1. ASSUME NEW job \in JobType, JobInv(job) PROVE JobInv(job)'
    BY <1>1, <2>1 DEF JobInv, OpeningInv, DeletingInv, Idle, Opening
  <2> QED BY <1>1, <2>1, Waits DEF StoreInv
<1> QED BY <1>3, <1>4, <1>5, <1>6, <1>7 DEF StoreInv

(* The process ends: nothing is queued, no connection is left.               *)
LEMMA ProcessEndsKeeps ==
  ASSUME StoreInv, ProcessEnds, build' \in Builds, locked' \in BOOLEAN,
         budget' \in [Events -> Nat]
  PROVE  StoreInv'
<1>1. /\ queue' = <<>> /\ handle' = NoHandle /\ native' = 0
      /\ UNCHANGED <<keys, files, rows, acked, gone, lied>>
  BY DEF ProcessEnds
<1>2. queue' \in Seq(JobType) /\ QueueInv'
  BY <1>1 DEF QueueInv
<1>3. handle' \in [is : {"none", "open", "closed"}, gen : Nat] /\ handle'.is # "open"
  BY <1>1 DEF NoHandle
<1>4. lied' \in BOOLEAN /\ (lied => lied')
  BY <1>1 DEF StoreInv, TypeInv
<1>5. CASE PartWay /\ given' = given \cup 1..rows
  BY <1>1, <1>2, <1>3, <1>4, <1>5, NativeDeleted DEF PartWay
<1>6. CASE UNCHANGED <<vault, lost, file, given>>
  <2>1. TypeInv'
    BY <1>1, <1>2, <1>3, <1>6 DEF StoreInv, TypeInv
  <2>2. KeysInv' /\ RowsInv'
    BY <1>1, <1>6 DEF StoreInv, KeysInv, RowsInv
  <2>3. ConnInv'
    BY <1>1, <1>3 DEF ConnInv
  <2>4. SafeInv'
    BY <1>1, <1>6 DEF StoreInv, SafeInv, StoredIsKept, DeletedIsGone, UnderItsKey
  <2> QED BY <1>2, <2>1, <2>2, <2>3, <2>4 DEF StoreInv
<1> QED BY <1>5, <1>6 DEF ProcessEnds

LEMMA UnlockKeeps ==
  ASSUME StoreInv, Unlock
  PROVE  StoreInv'
<1>1. /\ locked' = FALSE
      /\ UNCHANGED <<lost, vault, keys, disk, handle, native, queue, rows, history, budget>>
  BY DEF Unlock
<1> USE DEF disk, history
<1>2. TypeInv'
  BY <1>1 DEF StoreInv, TypeInv
<1>3. KeysInv' /\ RowsInv'
  BY <1>1 DEF StoreInv, KeysInv, RowsInv
<1>4. ConnInv'
  BY <1>1 DEF StoreInv, ConnInv, OnFile
<1>5. SafeInv'
  BY <1>1 DEF StoreInv, SafeInv, StoredIsKept, DeletedIsGone, UnderItsKey
<1>6. QueueInv'
  <2>1. ASSUME NEW job \in JobType, JobInv(job) PROVE JobInv(job)'
    BY <1>1, <2>1 DEF JobInv, OpeningInv, DeletingInv, Idle, Opening
  <2> QED BY <1>1, <2>1, Waits DEF StoreInv
<1> QED BY <1>2, <1>3, <1>4, <1>5, <1>6 DEF StoreInv

----------------------------------------------------------------------------
(* The invariant, and what follows from it                                   *)

LEMMA StoreInvAtFirst ==
  Init => StoreInv
<1> SUFFICES ASSUME Init PROVE StoreInv
  OBVIOUS
<1>1. TypeInv
  <2>1. build \in Builds /\ budget \in [Events -> Nat]
    BY DEF Init
  <2>2. file \in FileType /\ handle \in [is : {"none", "open", "closed"}, gen : Nat]
    BY DEF Init, NoFile, FileType, NoHandle
  <2>3. queue \in Seq(JobType) /\ gone \in [upTo : Nat, keys : SUBSET Nat]
    BY DEF Init
  <2>4. locked \in BOOLEAN /\ lost \in BOOLEAN /\ lied \in BOOLEAN
    BY Zenon DEF Init
  <2> QED BY <2>1, <2>2, <2>3, <2>4 DEF Init, TypeInv
<1>2. KeysInv /\ RowsInv /\ ConnInv
  BY DEF Init, KeysInv, RowsInv, ConnInv, NoFile, NoHandle
<1>3. QueueInv
  BY DEF Init, QueueInv
<1>4. SafeInv
  BY DEF Init, SafeInv, StoredIsKept, DeletedIsGone, UnderItsKey, NoFile
<1> QED BY <1>1, <1>2, <1>3, <1>4 DEF StoreInv

LEMMA StoreInvStep ==
  StoreInv /\ [Next]_vars => StoreInv'
<1> SUFFICES ASSUME StoreInv, [Next]_vars PROVE StoreInv'
  OBVIOUS
<1>1. CASE AskWrite \/ AskMaintenance \/ AskDelete
  BY <1>1, AskKeeps DEF AskWrite, AskMaintenance, AskDelete
<1>2. CASE Serve
  <2>1. PICK i \in DOMAIN queue :
          \/ Opened(i) \/ ReadKey(i) \/ OpenFails(i) \/ Verified(i) \/ Migrates(i)
          \/ OpenSucceeds(i) \/ Run(i)
          \/ DeleteBegins(i) \/ NativeDeletes(i) \/ DeleteChecksKey(i)
    BY <1>2 DEF Serve
  <2> QED BY <2>1, OpenedKeeps, ReadKeyKeeps, OpenFailsKeeps, VerifiedKeeps, MigratesKeeps,
             OpenSucceedsKeeps, RunKeeps, DeleteBeginsKeeps, NativeDeletesKeeps, DeleteChecksKeyKeeps
<1>3. CASE NativeStores
  BY <1>3, NativeStoresKeeps
<1>4. CASE NativeOpens
  BY <1>4, NativeOpensKeeps
<1>5. CASE KeyLost
  BY <1>5, KeyLostKeeps
<1>6. CASE AppDies
  <2>1. build' \in Builds /\ locked' \in BOOLEAN /\ ProcessEnds
    BY <1>6 DEF AppDies, StoreInv, TypeInv
  <2>2. budget' \in [Events -> Nat]
    BY <1>6, Spent DEF AppDies, StoreInv, Events
  <2> QED BY <2>1, <2>2, ProcessEndsKeeps
<1>7. CASE AppReplaced
  <2>1. build' \in Builds /\ locked' \in BOOLEAN /\ ProcessEnds
    BY <1>7 DEF AppReplaced, StoreInv, TypeInv
  <2>2. budget' \in [Events -> Nat]
    BY <1>7, Spent DEF AppReplaced, StoreInv, Events
  <2> QED BY <2>1, <2>2, ProcessEndsKeeps
<1>8. CASE Unlock
  BY <1>8, UnlockKeeps
<1>9. CASE UNCHANGED vars
  BY <1>9, OnlyQueued DEF vars, StoreInv, TypeInv, QueueInv, JobInv, OpeningInv, DeletingInv,
     Opening, Idle, HasTurn, device, disk, history
<1> QED BY <1>1, <1>2, <1>3, <1>4, <1>5, <1>6, <1>7, <1>8, <1>9 DEF Next

LEMMA StoreInvAlways == Spec => []StoreInv
BY StoreInvAtFirst, StoreInvStep, PTL DEF Spec

(* A stored row stays in the file, under the key of the vault, until a       *)
(* delete is asked to remove it: for any number of deaths, restarts, lost    *)
(* keys, faults and builds.                                                  *)
THEOREM StoredRowsAreKept == Spec => []StoredIsKept
BY StoreInvAlways, PTL DEF StoreInv, SafeInv

(* After a confirmed delete nothing from before it is left: no row and no    *)
(* key, though the native half may have claimed what it did not do.          *)
THEOREM ConfirmedDeleteIsTrue == Spec => []DeletedIsGone
BY StoreInvAlways, PTL DEF StoreInv, SafeInv

(* The store opens with the key there is, and a connection in use is on the  *)
(* schema of the build.                                                      *)
THEOREM StoreStaysReadable == Spec => []Readable
<1>1. StoreInv => Readable
  BY DEF StoreInv, SafeInv, Readable, ConnInv, OnFile, OnItsSchema
<1> QED BY <1>1, StoreInvAlways, PTL
=============================================================================
