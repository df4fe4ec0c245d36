----------------------------- MODULE GoalManager -----------------------------
(***************************************************************************)
(* The goals, tasks and status of src/src/control_plane/goal_manager.rs,   *)
(* kept as pinned entries of the memory store and saved to a file after    *)
(* every change, with what else touches the store: captures of requests    *)
(* and the model selection, which re-encodes every entry.                  *)
(*                                                                         *)
(* Each handler runs one operation at a time, in the order the code takes  *)
(* and drops the store's lock: a change is one step, then the save of      *)
(* GoalFile; a re-encoding (and the load at startup) is a snapshot and     *)
(* then one step per entry.                                                *)
(***************************************************************************)
EXTENDS MemoryStore, GoalFile

CONSTANTS
  GoalId, TaskId, CaptureId, StatusKey,   \* the keys of the store
  NoGoal,                                 \* "none": a status without a goal
  Width,                                  \* widths of the models' vectors
  MaxChanges                              \* bound on operations and captures

TaskStatus == {"active", "done", "blocked"}
\* PersistedState: what a save or a re-encoding reads from the store, what the file holds.
GoalSnapshots ==
  [goal   : UNION {[S -> BOOLEAN] : S \in SUBSET GoalId},
   task   : UNION {[S -> [goal : GoalId, status : TaskStatus]] : S \in SUBSET TaskId},
   status : SUBSET (GoalId \cup {NoGoal})]

\* The keys and the tags of different kinds have different prefixes.
ASSUME GoalAssumption ==
  /\ Key = GoalId \cup TaskId \cup CaptureId \cup {StatusKey}
  /\ GoalId \cap (TaskId \cup CaptureId \cup {StatusKey}) = {}
  /\ TaskId \cap (CaptureId \cup {StatusKey}) = {} /\ StatusKey \notin CaptureId
  /\ Category = {"goal", "task", "status", "context"}
  /\ Tag = GoalId \cup {NoGoal, "current"} \cup TaskStatus
  /\ (GoalId \cup {NoGoal}) \cap ({"current"} \cup TaskStatus) = {} /\ NoGoal \notin GoalId
  /\ Width \subseteq Nat
  /\ Snapshot = GoalSnapshots

VARIABLES
  mem,      \* the store
  width,    \* hidden size of the loaded model
  firstWidth, \* d_model: of the model loaded at startup
  step,     \* a handler's progress besides saving: "idle", "forget", "encode", "restore"
  todo,     \* what a handler has still to restore
  started,  \* whether load_from_disk has returned
  fresh,    \* ids not yet given out
  changes,  \* operations and captures begun
  raced     \* history: what happened while entries were being re-encoded

memVars == <<mem, width, firstWidth, step, todo, started, fresh, changes, raced>>
goalVars == <<memVars, fileVars>>

NoSnapshot == [goal |-> <<>>, task |-> <<>>, status |-> {}]

GoalInit ==
  /\ FileInit
  /\ mem = EmptyStore /\ width \in Width /\ firstWidth = width
  /\ step = [s \in Saver |-> "idle"] /\ todo = [s \in Saver |-> NoSnapshot]
  /\ started = TRUE /\ fresh = GoalId \cup TaskId /\ changes = 0 /\ raced = {}

-----------------------------------------------------------------------------
\* encode: a vector of the loaded model, or zeros of the first model's width when
\* every slot is busy.
EncodedSizes == {width, firstWidth}

GoalEntry(id, isCurrent, size) ==
  [cat |-> "goal", tags |-> {id} \cup (IF isCurrent THEN {"current"} ELSE {}),
   size |-> size, pinned |-> TRUE, ttl |-> "none"]
TaskEntry(goal, status, size) ==
  [cat |-> "task", tags |-> {goal, status}, size |-> size,
   pinned |-> status # "done", ttl |-> "none"]
StatusEntry(goal, size) ==
  [cat |-> "status", tags |-> {goal}, size |-> size, pinned |-> FALSE, ttl |-> "live"]
CaptureEntry(size) ==
  [cat |-> "context", tags |-> {}, size |-> size, pinned |-> FALSE, ttl |-> "none"]

GoalOf(e) == CHOOSE g \in e.tags : g \in GoalId \cup {NoGoal}
StatusOf(e) == CHOOSE t \in e.tags : t \in TaskStatus
CurrentGoals(st) == {k \in ByCategory(st, "goal") : "current" \in st.entries[k].tags}

\* Mutant of SnapshotOf: tasks that are done are not listed.
SnapshotOfOpen(st) ==
  [goal   |-> [g \in ByCategory(st, "goal") |-> "current" \in st.entries[g].tags],
   task   |-> [t \in ByCategory(st, "task") \ ByTag(st, "done") |->
                 [goal |-> GoalOf(st.entries[t]), status |-> StatusOf(st.entries[t])]],
   status |-> {GoalOf(st.entries[k]) : k \in ByCategory(st, "status")}]
\* snapshot_for_save: what is live.
SnapshotOf(st) ==
  [goal   |-> [g \in ByCategory(st, "goal") |-> "current" \in st.entries[g].tags],
   task   |-> [t \in ByCategory(st, "task") |->
                 [goal |-> GoalOf(st.entries[t]), status |-> StatusOf(st.entries[t])]],
   status |-> {GoalOf(st.entries[k]) : k \in ByCategory(st, "status")}]

\* A goal stored again under other tags, pinned and for good.
Retagged(e, tags) ==
  [cat |-> e.cat, tags |-> tags, size |-> e.size, pinned |-> TRUE, ttl |-> "none"]

\* Clearing the tag of the current goals, one after the other: set_goal, set_current.
\* Each is put back with its own size, which always fits.
Uncurrent(st) ==
  LET old == CurrentGoals(st)
      left(e) == Retagged(e, e.tags \ {"current"})
  IN  [entries |-> [k \in Keys(st) |-> IF k \in old THEN left(st.entries[k]) ELSE st.entries[k]],
       bytes |-> st.bytes, catBytes |-> st.catBytes, byCat |-> st.byCat,
       byTag |-> [st.byTag EXCEPT !["current"] = @ \ old]]

\* A handler free to begin; one step in the process' life, once it has started.
Begins(s) ==
  /\ started /\ changes < MaxChanges /\ changes' = changes + 1
  /\ step[s] = "idle" /\ saving[s] = "no"
Reencoding == \E s \in Saver : step[s] = "restore"
Notes(what) == raced' = raced \cup (IF Reencoding THEN {what} ELSE {})

\* A change of the store by s, then its save.
Changes(s, stores) ==
  /\ mem' \in stores
  /\ step' = [step EXCEPT ![s] = "save"]
  /\ Notes("change")
  /\ UNCHANGED <<width, firstWidth, todo, started>>
  /\ UNCHANGED fileVars

\* A change that does not happen, and is not saved.
Refused(s) ==
  UNCHANGED <<mem, width, firstWidth, step, todo, started, fresh, raced>> /\ UNCHANGED fileVars

-----------------------------------------------------------------------------
SetGoal(s) ==
  /\ Begins(s)
  /\ \E g \in fresh \cap GoalId, size \in EncodedSizes :
       /\ fresh' = fresh \ {g}
       /\ Changes(s, Stored(Uncurrent(mem), g, GoalEntry(g, TRUE, size)))

\* Mutant of CurrentAfter: the goal that was current stays so.
CurrentAfterBoth(st, g) ==
  Stored(st, g, Retagged(st.entries[g], st.entries[g].tags \cup {"current"}))
\* set_current: the old current goals lose the tag, the target gets it.
CurrentAfter(st, g) ==
  LET u == Uncurrent(st) IN
  Stored(u, g, Retagged(u.entries[g], u.entries[g].tags \cup {"current"}))
SetCurrent(s) ==
  /\ Begins(s)
  /\ \E g \in GoalId :
       IF Live(mem, g) THEN Changes(s, CurrentAfter(mem, g)) /\ UNCHANGED fresh ELSE Refused(s)

\* add_task: the goal is the client's word.
AddTask(s) ==
  /\ Begins(s)
  /\ \E t \in fresh \cap TaskId, g \in GoalId, size \in EncodedSizes :
       /\ fresh' = fresh \ {t}
       /\ Changes(s, Stored(mem, t, TaskEntry(g, "active", size)))

UpdateTask(s) ==
  /\ Begins(s)
  /\ \E t \in TaskId, status \in TaskStatus :
       IF Live(mem, t)
       THEN /\ Changes(s, Stored(mem, t, TaskEntry(GoalOf(mem.entries[t]), status,
                                                   mem.entries[t].size)))
            /\ UNCHANGED fresh
       ELSE Refused(s)

\* set_status, for the current goal if there is one.
SetStatus(s) ==
  /\ Begins(s)
  /\ \E g \in (IF CurrentGoals(mem) = {} THEN {NoGoal} ELSE CurrentGoals(mem)),
        size \in EncodedSizes :
       Changes(s, Stored(mem, StatusKey, StatusEntry(g, size)))
  /\ UNCHANGED fresh

\* save begins with a snapshot, after the write lock of the change was dropped.
Save(s) ==
  /\ step[s] = "save"
  /\ TakeSnapshot(s, SnapshotOf(mem))
  /\ step' = [step EXCEPT ![s] = "idle"]
  /\ Notes("snapshot")
  /\ UNCHANGED <<mem, width, firstWidth, todo, started, fresh, changes>>

SaveStep(s) == (Open(s) \/ Write(s) \/ Rename(s) \/ SaveFails(s)) /\ UNCHANGED memVars

-----------------------------------------------------------------------------
\* A request captures a hidden state; time passes.
Capture ==
  /\ started /\ changes < MaxChanges /\ changes' = changes + 1
  /\ \E k \in CaptureId : /\ k \notin Keys(mem)
                          /\ mem' \in Stored(mem, k, CaptureEntry(width))
  /\ UNCHANGED <<width, firstWidth, step, todo, started, fresh, raced>>
  /\ UNCHANGED fileVars

Expire ==
  /\ \E k \in Keys(mem) : /\ mem.entries[k].ttl = "live"
                          /\ mem' = [mem EXCEPT !.entries[k].ttl = "expired"]
  /\ UNCHANGED <<width, firstWidth, step, todo, started, fresh, changes, raced>>
  /\ UNCHANGED fileVars

\* The end of select_model: the slots run another model, Context entries go, then
\* reencode_all.
SelectModel(s) ==
  /\ Begins(s)
  /\ width' \in Width
  /\ step' = [step EXCEPT ![s] = "forget"]
  /\ UNCHANGED <<mem, firstWidth, todo, started, fresh, raced>>
  /\ UNCHANGED fileVars

Forgotten(st) == Removed(st, ByCategory(st, "context"))
Forget(s) ==
  /\ step[s] = "forget"
  /\ mem' = Forgotten(mem)
  /\ step' = [step EXCEPT ![s] = "encode"]
  /\ UNCHANGED <<width, firstWidth, todo, started, fresh, changes, raced>>
  /\ UNCHANGED fileVars

\* reencode_all: a snapshot, worked through without the lock.
ReencodeAll(s) ==
  /\ step[s] = "encode"
  /\ todo' = [todo EXCEPT ![s] = SnapshotOf(mem)]
  /\ step' = [step EXCEPT ![s] = "restore"]
  /\ Notes("snapshot")
  /\ UNCHANGED <<mem, width, firstWidth, started, fresh, changes>>
  /\ UNCHANGED fileVars

\* restore_goal, restore_task, restore_status: goals in any order, then tasks, then
\* the status, each under a write lock of its own.
Restored(s, stores, rest) ==
  /\ mem' \in stores
  /\ todo' = [todo EXCEPT ![s] = rest]
RestoreEntry(s) ==
  /\ step[s] = "restore"
  /\ LET left == todo[s] IN
     \E size \in EncodedSizes :
       \/ \E g \in DOMAIN left.goal :
            Restored(s, Stored(mem, g, GoalEntry(g, left.goal[g], size)),
                     [left EXCEPT !.goal = Restrict(@, DOMAIN @ \ {g})])
       \/ /\ left.goal = <<>>
          /\ \E t \in DOMAIN left.task :
               Restored(s, Stored(mem, t, TaskEntry(left.task[t].goal, left.task[t].status, size)),
                        [left EXCEPT !.task = Restrict(@, DOMAIN @ \ {t})])
       \/ /\ left.goal = <<>> /\ left.task = <<>>
          /\ \E g \in left.status :
               Restored(s, Stored(mem, StatusKey, StatusEntry(g, size)),
                        [left EXCEPT !.status = {}])
  /\ UNCHANGED <<width, firstWidth, step, started, fresh, changes, raced>>
  /\ UNCHANGED fileVars

RestoreEnd(s) ==
  /\ step[s] = "restore" /\ todo[s] = NoSnapshot
  /\ step' = [step EXCEPT ![s] = "idle"] /\ started' = TRUE
  /\ UNCHANGED <<mem, width, firstWidth, todo, fresh, changes, raced>>
  /\ UNCHANGED fileVars

\* The process is killed and started again: load_from_disk restores what the goals
\* file holds, or nothing when there is none or it does not parse, before requests
\* are served.
Restart ==
  /\ changes < MaxChanges /\ changes' = changes + 1
  /\ Killed
  /\ mem' = EmptyStore /\ width' \in Width /\ firstWidth' = width'
  /\ \E s \in Saver :
       /\ todo' = [r \in Saver |-> IF r = s /\ goals # Nowhere /\ contents[goals] # Torn
                                   THEN contents[goals] ELSE NoSnapshot]
       /\ step' = [r \in Saver |-> IF r = s THEN "restore" ELSE "idle"]
  /\ started' = FALSE
  /\ UNCHANGED <<fresh, raced>>

GoalNext ==
  \/ \E s \in Saver : \/ SetGoal(s) \/ SetCurrent(s) \/ AddTask(s) \/ UpdateTask(s)
                      \/ SetStatus(s) \/ Save(s) \/ SaveStep(s)
                      \/ SelectModel(s) \/ Forget(s) \/ ReencodeAll(s)
                      \/ RestoreEntry(s) \/ RestoreEnd(s)
  \/ Capture \/ Expire \/ Restart

GoalSpec == GoalInit /\ [][GoalNext]_goalVars

-----------------------------------------------------------------------------
\* Replacing, expiring, evicting, forgetting and restoring entries, whatever the
\* models' widths, keep the store's counters, indexes and budgets exact.
MemoryAccounts == StoreAccounts(mem)

\* "Pinned entries are never evicted": an entry that was pinned is gone only when it
\* was itself restored, too wide for its category's budget, or the process died.
PinnedSurvives ==
  [][\A k \in Keys(mem) \ Keys(mem') :
       mem.entries[k].pinned =>
         \/ ~started'
         \/ \E s \in Saver : \/ k \in DOMAIN todo[s].goal \ DOMAIN todo'[s].goal
                             \/ k \in DOMAIN todo[s].task \ DOMAIN todo'[s].task]_goalVars

\* "one current, optionally many archived", as long as no goal changes while the
\* entries are being re-encoded.
OneCurrentGoal == "change" \notin raced => Cardinality(CurrentGoals(mem)) <= 1

\* When every handler is done, a restart would bring back every goal and every task
\* as they are, unless the last save failed, saves overlapped, or a change, a snapshot for
\* a save or a second re-encoding raced a re-encoding.
Quiet == started /\ \A s \in Saver : step[s] = "idle" /\ ~Saving(s)
SavedWhenQuiet ==
  (Quiet /\ ~failed /\ ~overlapped /\ raced = {}) =>
    LET disk == IF goals = Nowhere THEN NoSnapshot ELSE contents[goals]
    IN  /\ \A g \in ByCategory(mem, "goal") :
             g \in DOMAIN disk.goal /\ disk.goal[g] = (g \in CurrentGoals(mem))
        /\ \A t \in ByCategory(mem, "task") :
             /\ t \in DOMAIN disk.task
             /\ disk.task[t].status \in mem.entries[t].tags
             /\ disk.task[t].goal \in mem.entries[t].tags
=============================================================================
