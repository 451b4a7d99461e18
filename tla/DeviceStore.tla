----------------------------- MODULE DeviceStore -----------------------------
(* The encrypted store of the phone: one file and one key, opened by the     *)
(* data store of the app (JavaScript, one piece of work at a time) and by    *)
(* the native writer of the capture module, which may run at any moment;     *)
(* and "Delete all my data", which closes both, removes the file, rotates    *)
(* the key and opens a new store.  The app may die between any two steps, or *)
(* be replaced by a build with another schema; the phone may restart and     *)
(* stay locked, a step may fail, the key may be lost, and the native half    *)
(* may answer without having done its work.                                  *)
(*                                                                           *)
(* A key, a file and a row are numbers, never used twice.  What is in a row  *)
(* and the cipher parameters are left out; a file nothing was written to yet *)
(* has key 0.                                                                *)
EXTENDS Integers, Sequences

CONSTANTS
  Builds,  \* builds of the app, by the schema version they expect
  Budgets  \* how often each of the bounded events happens

Events == {"jobs", "rows", "faults", "lies", "losses", "deaths", "updates"}

ASSUME BuildAssumption == Builds \subseteq Nat \ {0} /\ Builds # {}
ASSUME BudgetAssumption == Budgets \subseteq [Events -> Nat]

VARIABLES build,    \* the build of the app that is installed
          locked,   \* not unlocked since the phone restarted: no key is readable
          lost,     \* the key is there and can never be read again
          vault,    \* the key, or 0
          keys,     \* keys made
          file,     \* the store file: gen 0 if there is none; its schema is 0 before any migration
          files,    \* files made
          handle,   \* current.store of the data store
          native,   \* the file the native writer's connection is on, or 0
          queue,    \* the work given to serial(), in order
          rows,     \* rows handed to a writer
          acked,    \* history: the rows a writer said are stored
          given,    \* history: the rows a native delete was asked to remove
          gone,     \* history: what confirmed deletes promised is gone
          lied,     \* history: a native delete has answered without being done
          budget    \* what is left of the bounded events

device == <<locked, lost, vault, keys>>
disk == <<build, file, files>>
history == <<acked, given, gone, lied>>
vars == <<device, disk, handle, native, queue, rows, history, budget>>

NoFile == [gen |-> 0, key |-> 0, schema |-> 0, rows |-> {}]
Job(op) == [op |-> op, at |-> "queued", key |-> 0, oldKey |-> 0, upTo |-> 0, held |-> 0, from |-> 0]
Done == [Job("none") EXCEPT !.at = "done"]
NoHandle == [is |-> "none", gen |-> 0]

Spend(event) == budget[event] > 0 /\ budget' = [budget EXCEPT ![event] = @ - 1]

----------------------------------------------------------------------------
(* The vault: getOrCreateStoreKeyHex.                                        *)

KeyReadable == ~locked /\ ~lost

\* A key that is there and cannot be read is never answered with a new one.
KeyNow == IF vault = 0 THEN keys + 1 ELSE vault

GetKey == /\ vault' = KeyNow
          /\ keys' = IF vault = 0 THEN keys + 1 ELSE keys
          /\ UNCHANGED <<locked, lost>>

\* The driver creates a file that is absent.
FileAt == IF file.gen = 0 THEN [NoFile EXCEPT !.gen = files + 1] ELSE file
TouchFile == files' = IF file.gen = 0 THEN files + 1 ELSE files

----------------------------------------------------------------------------
(* The data store's queue: serial() and opened().                            *)

\* mutant
HasTurnAtOnce(i) == queue[i] # Done

HasTurn(i) == \A j \in 1..(i - 1) : queue[j] = Done
At(i, step) == HasTurn(i) /\ queue[i].at = step
Go(i, step) == queue' = [queue EXCEPT ![i].at = step]
Settle(i) == queue' = [queue EXCEPT ![i] = Done]

Ask(op) ==
  /\ Spend("jobs")
  /\ queue' = Append(queue, Job(op))
  /\ UNCHANGED <<device, disk, handle, native, rows, history>>

\* A statement of a table function, of the fetcher or of a submission.
AskWrite == Ask("write")
\* runMaintenance: a call made while a run is waiting or running joins it.
AskMaintenance == (\A i \in DOMAIN queue : queue[i].op # "maintain") /\ Ask("maintain")
\* The button in Settings, which needs an unlocked phone.
AskDelete == ~locked /\ Ask("delete")

\* opened(): the handle if there is one, else openStore.
Opened(i) ==
  /\ At(i, "queued") /\ queue[i].op # "delete"
  /\ Go(i, IF handle.is = "none" THEN "key" ELSE "run")
  /\ UNCHANGED <<device, disk, handle, native, rows, history, budget>>

\* openStore: the key and the directory.
ReadKey(i) ==
  /\ At(i, "key")
  /\ \/ /\ KeyReadable
        /\ GetKey
        /\ queue' = [queue EXCEPT ![i].at = "open", ![i].key = KeyNow]
     \/ /\ ~KeyReadable
        /\ Settle(i)
        /\ UNCHANGED device
  /\ UNCHANGED <<disk, handle, native, rows, history, budget>>

\* The checks end with the journal mode, which writes the first page under the key.
Keyed(key) == [FileAt EXCEPT !.key = key]
Decrypts(i) == file.key \in {0, queue[i].key}

\* openStore: the driver and the checks.
OpenFails(i) ==
  /\ At(i, "open")
  /\ \/ ~Decrypts(i) /\ file' = FileAt /\ UNCHANGED budget
     \/ Spend("faults") /\ file' \in {FileAt} \cup (IF Decrypts(i) THEN {Keyed(queue[i].key)} ELSE {})
  /\ TouchFile
  /\ Settle(i)
  /\ UNCHANGED <<build, device, handle, native, rows, history>>

\* The version of the schema is a number in the file itself.
TooNew(schema) == schema > build

\* The file decrypts; one of a newer build is not touched.
Verified(i) ==
  /\ At(i, "open") /\ Decrypts(i)
  /\ file' = Keyed(queue[i].key) /\ TouchFile
  /\ IF TooNew(file.schema) THEN Settle(i)
     ELSE queue' = [queue EXCEPT ![i].at = "migrate", ![i].from = file.schema]
  /\ UNCHANGED <<build, device, handle, native, rows, history, budget>>

\* One migration and its version, in one transaction.
Migrates(i) ==
  /\ At(i, "migrate") /\ file.schema < build
  /\ \/ file' = [file EXCEPT !.schema = @ + 1] /\ UNCHANGED <<queue, budget>>
     \/ Spend("faults") /\ Settle(i) /\ UNCHANGED file
  /\ UNCHANGED <<build, device, files, handle, native, rows, history>>

\* A delete must find a store that was empty, and it is confirmed then.
OpenSucceeds(i) ==
  /\ At(i, "migrate") /\ file.schema = build
  /\ \/ /\ queue[i].op # "delete"
        /\ handle' = [is |-> "open", gen |-> file.gen]
        /\ Go(i, "run")
        /\ UNCHANGED gone
     \/ /\ queue[i].op = "delete" /\ queue[i].from = 0
        /\ handle' = [is |-> "open", gen |-> file.gen]
        /\ gone' = [upTo |-> queue[i].upTo, keys |-> gone.keys \cup {queue[i].held}]
        /\ Settle(i)
     \/ /\ queue[i].op = "delete" /\ queue[i].from # 0
        /\ Settle(i)
        /\ UNCHANGED <<handle, gone>>
  /\ UNCHANGED <<device, disk, native, rows, acked, given, lied, budget>>

\* A row is stored in the file a connection is on, which may have been removed.
Store(gen) ==
  /\ Spend("rows")
  /\ rows' = rows + 1
  /\ acked' = acked \cup {rows + 1}
  /\ file' = IF gen = file.gen THEN [file EXCEPT !.rows = @ \cup {rows + 1}] ELSE file
  /\ UNCHANGED <<given, gone, lied>>

Run(i) ==
  /\ At(i, "run")
  /\ \/ /\ handle.is = "open" /\ queue[i].op = "write"
        /\ Store(handle.gen)
     \/ /\ handle.is = "closed" \/ queue[i].op = "maintain"
        /\ UNCHANGED <<file, rows, history, budget>>
  /\ Settle(i)
  /\ UNCHANGED <<device, build, files, handle, native>>

----------------------------------------------------------------------------
(* deleteAllData.                                                            *)

\* The old key, if it can be read, and the close of the JavaScript connection.
DeleteBegins(i) ==
  /\ At(i, "queued") /\ queue[i].op = "delete"
  /\ IF KeyReadable THEN GetKey ELSE UNCHANGED device
  /\ queue' = [queue EXCEPT ![i].at = "native", ![i].upTo = rows, ![i].held = KeyNow,
                            ![i].oldKey = IF KeyReadable THEN KeyNow ELSE 0]
  /\ handle' = IF handle.is = "open" THEN [handle EXCEPT !.is = "closed"] ELSE handle
  /\ UNCHANGED <<disk, native, rows, history, budget>>

Removed == file' = NoFile
DestroysKey == vault' = 0 /\ lost' = FALSE
KeepsKey == UNCHANGED <<vault, lost>>

\* mutant
KeyThenFiles == (Removed \/ UNCHANGED file) /\ DestroysKey

\* How far the native half gets before it fails or dies: the files first, the key last.
PartWay == (Removed \/ UNCHANGED file) /\ KeepsKey

\* The native half, under the lock: the native connection, the files, the key.
NativeDeletes(i) ==
  /\ At(i, "native")
  /\ native' = 0
  /\ given' = given \cup 1..rows
  /\ \/ /\ Removed /\ DestroysKey
        /\ Go(i, "rotated")
        /\ UNCHANGED <<lied, budget>>
     \/ /\ PartWay /\ Spend("faults")
        /\ Settle(i)
        /\ UNCHANGED lied
     \/ /\ Removed \/ UNCHANGED file
        /\ DestroysKey \/ KeepsKey
        /\ Spend("lies") /\ lied' = TRUE
        /\ Go(i, "rotated")
  /\ UNCHANGED <<build, locked, keys, files, handle, rows, acked, gone>>

\* mutant
DeleteTrusts(i) ==
  /\ At(i, "rotated")
  /\ IF KeyReadable THEN GetKey /\ Go(i, "key") ELSE Settle(i) /\ UNCHANGED device
  /\ UNCHANGED <<disk, handle, native, rows, history, budget>>

\* The new key must be readable and another one; the store is opened next.
DeleteChecksKey(i) ==
  /\ At(i, "rotated")
  /\ \/ /\ KeyReadable
        /\ GetKey
        /\ IF KeyNow = queue[i].oldKey THEN Settle(i) ELSE Go(i, "key")
     \/ /\ ~KeyReadable
        /\ Settle(i)
        /\ UNCHANGED device
  /\ UNCHANGED <<disk, handle, native, rows, history, budget>>

----------------------------------------------------------------------------
(* The native writer (EncryptedStore.write), and what happens to the phone.  *)

\* Its connection is open: the row is stored, or the connection is dropped.
NativeStores ==
  /\ native # 0
  /\ \/ Store(native) /\ UNCHANGED native
     \/ /\ Spend("faults")
        /\ native' = 0
        /\ UNCHANGED <<file, rows, history>>
  /\ UNCHANGED <<build, device, files, handle, queue>>

WritesTo(schema) == schema # 0  \* mutant: any schema will do

\* It never makes a schema, and writes to its own only.
RequiresSchema(schema) == schema = build

\* open: the key, the file and the checks.
NativeOpens ==
  /\ native = 0 /\ KeyReadable
  /\ GetKey
  /\ file' = IF file.key \in {0, KeyNow} THEN Keyed(KeyNow) ELSE file
  /\ TouchFile
  /\ native' = IF file.key = KeyNow /\ RequiresSchema(file.schema) THEN file.gen ELSE 0
  /\ UNCHANGED <<build, handle, queue, rows, history, budget>>

KeyLost ==
  /\ vault # 0 /\ ~lost
  /\ Spend("losses")
  /\ lost' = TRUE
  /\ UNCHANGED <<locked, vault, keys, disk, handle, native, queue, rows, history>>

\* The process ends, perhaps inside the native delete.
ProcessEnds ==
  /\ queue' = <<>> /\ handle' = NoHandle /\ native' = 0
  /\ IF \E i \in DOMAIN queue : At(i, "native")
     THEN PartWay /\ given' = given \cup 1..rows
     ELSE UNCHANGED <<vault, lost, file, given>>
  /\ UNCHANGED <<keys, files, rows, acked, gone, lied>>

\* The process dies, or the phone restarts.
AppDies == Spend("deaths") /\ locked' \in BOOLEAN /\ ProcessEnds /\ UNCHANGED build

\* Another build is installed: a newer one, or an older one again.
AppReplaced ==
  /\ Spend("updates")
  /\ build' \in Builds \ {build}
  /\ ProcessEnds
  /\ UNCHANGED locked

Unlock == locked /\ locked' = FALSE
          /\ UNCHANGED <<lost, vault, keys, disk, handle, native, queue, rows, history, budget>>

----------------------------------------------------------------------------

Init ==
  /\ build \in Builds
  /\ locked = FALSE /\ lost = FALSE /\ vault = 0 /\ keys = 0
  /\ file = NoFile /\ files = 0
  /\ handle = NoHandle /\ native = 0 /\ queue = <<>>
  /\ rows = 0 /\ acked = {} /\ given = {}
  /\ gone = [upTo |-> 0, keys |-> {}] /\ lied = FALSE
  /\ budget \in Budgets

Serve == \E i \in DOMAIN queue :
  \/ Opened(i) \/ ReadKey(i) \/ OpenFails(i) \/ Verified(i) \/ Migrates(i)
  \/ OpenSucceeds(i) \/ Run(i)
  \/ DeleteBegins(i) \/ NativeDeletes(i) \/ DeleteChecksKey(i)

Next ==
  \/ AskWrite \/ AskMaintenance \/ AskDelete \/ Serve
  \/ NativeStores \/ NativeOpens
  \/ KeyLost \/ AppDies \/ AppReplaced \/ Unlock

Spec == Init /\ [][Next]_vars

----------------------------------------------------------------------------
(* Properties.                                                               *)

\* A row that a writer said is stored stays in the file, under the key of the
\* vault, until a delete is asked to remove it: whatever the other connection
\* does, in whatever order the app dies, restarts locked and opens again
\* ("That would orphan every row already stored").
StoredIsKept == \A r \in acked \ given : r \in file.rows /\ file.key = vault

\* "A Settings screen can never report deleted when it was not": after a
\* confirmed delete no row from before it is in the store, and no key from
\* before it is in use, although the native half may have lied, failed before,
\* or been raced by the native writer.
DeletedIsGone == file.rows \cap 1..gone.upTo = {} /\ vault \notin gone.keys

\* The files go before the key: no store is left under a key that is gone,
\* unless the native half claimed a delete it did not do.
UnderItsKey == file.key # 0 /\ ~lied => file.key = vault

\* "It must not be touched", "it writes nothing": whichever build is installed, and
\* wherever a migration was cut off, a connection in use is on the schema of that build.
OnItsSchema ==
  \A gen \in {native} \cup (IF handle.is = "open" THEN {handle.gen} ELSE {}) :
    gen # 0 /\ gen = file.gen => file.schema = build

\* The store can be read by the build and the key there are.
Readable == UnderItsKey /\ OnItsSchema

\* "A store that cannot be opened is the result, and the next call tries again
\* from the start": work never runs on a handle that a delete has closed.
ClosedIsNotUsed ==
  \A i \in DOMAIN queue : At(i, "run") => handle.is # "closed"

=============================================================================
