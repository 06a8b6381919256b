-------------------------------- MODULE Fuse --------------------------------
(***************************************************************************)
(* The FUSE adapter: musefs-fuse/src/lib.rs and platform/passthrough.rs.   *)
(* One dispatch thread takes the kernel's requests, answers what it can    *)
(* and queues the rest for a fixed pool of workers; a request that is not  *)
(* answered hangs a system call for ever.  The module has the directory    *)
(* handles with their shared listings, readdirplus and its rounds of pool  *)
(* tasks, the in-flight read limit, passthrough registrations and the gate *)
(* of the background poll, which replaces the tree.                        *)
(*                                                                         *)
(* One directory is listed.  A tree generation is known by the address of  *)
(* its allocation, which is free for reuse once nobody holds the tree.  A  *)
(* listing is a copy in memory: [id, gen], its entries are Entries.        *)
(* Synthesis may fail or panic: both end in an error reply.                *)
(***************************************************************************)
EXTENDS Naturals, Sequences, FiniteSets, SequencesExt, FiniteSetsExt

CONSTANTS
    Workers,              \* threads of the pool
    Addrs,                \* addresses a tree may be allocated at
    Entries,              \* kinds of the directory's entries: "dir", "file"
    MAX_DIR_HANDLES,
    MAX_INFLIGHT_READS,
    READDIRPLUS_BATCH,
    Pages,                \* <<offset, how many entries fit the reply buffer>>
    Loads,                \* bound: how many requests of each kind the kernel sends,
                          \* how often a poll comes due, how many tasks get lost
    MaxRequests,          \* bound: requests of a load together
    None

VARIABLES
    tree,        \* [gen, addr]
    req,         \* request -> [op, fh, offset, page, state, listing, fate]
    next,        \* the next request
    queue,       \* jobs of the pool
    at,          \* thread -> what it is doing, or None
    open,        \* directory handle -> [key, listing]
    shared,      \* address -> [listing, handles], or None
    fill,        \* request -> PlusFill and its round
    inflight,    \* the read slots in use
    slab,        \* the file handles of the core
    backing,     \* file handles registered for passthrough
    disabled,    \* passthrough was refused once
    due,         \* the core's poll interval is over
    poll_pending,
    made,        \* listings built
    load         \* what is left of this behaviour's load

vars == <<tree, req, next, queue, at, open, shared, fill, inflight, slab, backing,
          disabled, due, poll_pending, made, load>>

Requests == 1..MaxRequests

Dispatch == 0

Threads == Workers \cup {Dispatch}

DIR_FH_STATELESS == 0

Trees == [gen : Nat, addr : Addrs]

\* DirListing, and the two tables that hold one: DirHandle and the index.
Listings == [id : Nat, gen : Nat]
OpenDirs == [key : Addrs, listing : Listings]
SharedDirs == [listing : Listings, handles : Nat \ {0}]

\* The tasks a thread runs, and how far one may be.
Kinds == {"getattr", "opendir", "readdir", "plushead", "read", "open", "poll", "plus", "round"}
Pcs == {"run", "guard", "reply", "file", "probe", "build", "admit", "dispatch", "finish"}

Tasks ==
    [kind : Kinds, r : Requests \cup {None}, i : Nat, pc : Pcs, snap : Trees \cup {None},
     listing : Listings \cup {None}]

ASSUME FuseAssumption ==
    /\ {MAX_DIR_HANDLES, MAX_INFLIGHT_READS, READDIRPLUS_BATCH, MaxRequests} \subseteq Nat \ {0}
    /\ Pages \subseteq Nat \X (Nat \ {0}) /\ Entries \in Seq({"dir", "file"})
    /\ IsFiniteSet(Workers) /\ Dispatch \notin Workers /\ Addrs # {}
    /\ None \notin Trees /\ None \notin Listings /\ None \notin OpenDirs
    /\ None \notin SharedDirs /\ None \notin Tasks

\* A request: what it asks, how often it was answered, what was answered,
\* and (ghost) the generation its listing must be of and what became of each
\* entry's resolution.
NoReq == [op |-> None, fh |-> 0, offset |-> 0, page |-> 0, state |-> "unsent", replies |-> 0,
          listing |-> None, entries |-> <<>>, gen |-> 0,
          fate |-> [i \in 1..Len(Entries) |-> "none"]]

NoFill == [listing |-> None, start |-> 0, upto |-> 0, slots |-> {}, outstanding |-> 0,
           reply |-> "none"]

Job(kind, r, i) == [kind |-> kind, r |-> r, i |-> i]

Doing(j, pc, snap) ==
    [kind |-> j.kind, r |-> j.r, i |-> j.i, pc |-> pc, snap |-> snap, listing |-> None]

(***************************************************************************)
(* Replies.                                                                *)
(***************************************************************************)
Reply(r, state) == [req EXCEPT ![r].state = state, ![r].replies = @ + 1]

ReplyListing(r, l) == [Reply(r, "answered") EXCEPT ![r].listing = l]

\* synth_outcome: an error and a caught panic both become an errno.
Errno(r) == Reply(r, "failed")

(***************************************************************************)
(* The table of directory handles.                                         *)
(***************************************************************************)
HandlesOn(a) == {f \in Requests : open[f] # None /\ open[f].key = a}

Strong(l) ==
    \/ \E f \in Requests : open[f] # None /\ open[f].listing = l
    \/ \E r \in Requests : fill[r].listing = l
    \/ \E t \in Threads : at[t] # None /\ at[t].listing = l

\* The listing some handle still holds of this directory at this address.
shared_listing(a) ==
    IF shared[a] # None /\ Strong(shared[a].listing) THEN shared[a].listing ELSE None

\* Seeded fault: a handle keeps the listing it came with.
IndexedOwn(a, l) == l

\* An indexed listing wins over the one the caller built.
Indexed(a, l) == IF shared_listing(a) # None THEN shared_listing(a) ELSE l

\* try_admit_dir_handle, under the table's lock.
try_admit_dir_handle(r, a, l) ==
    IF Cardinality({f \in Requests : open[f] # None}) >= MAX_DIR_HANDLES
    THEN UNCHANGED <<open, shared>>
    ELSE LET mine == Indexed(a, l) IN
         /\ open' = [open EXCEPT ![r] = [key |-> a, listing |-> mine]]
         /\ shared' = [shared EXCEPT ![a] =
                IF @ = None THEN [listing |-> l, handles |-> 1]
                ELSE [listing |-> @.listing, handles |-> @.handles + 1]]

\* The handle given out: the request's number, unused before, or stateless.
dir_open_fh(r) == IF open'[r] # None THEN r ELSE DIR_FH_STATELESS

\* release_dir_handle: the index entry goes with its last handle.
release_dir_handle(f) ==
    LET a == open[f].key IN
    /\ open' = [open EXCEPT ![f] = None]
    /\ shared' = [shared EXCEPT ![a] =
           IF @.handles = 1 THEN None
           ELSE [listing |-> @.listing, handles |-> @.handles - 1]]

\* Seeded fault: an index entry does not hold its tree.
LiveAddrsUnpinned ==
    {tree.addr} \cup {at[t].snap.addr : t \in {u \in Threads : at[u] # None /\ at[u].snap # None}}

\* Addresses of trees somebody holds: the mount, an index entry, a thread.
LiveAddrs ==
    {tree.addr} \cup {a \in Addrs : shared[a] # None}
    \cup {at[t].snap.addr : t \in {u \in Threads : at[u] # None /\ at[u].snap # None}}

(***************************************************************************)
(* Requests arrive on the dispatch thread.                                 *)
(***************************************************************************)
Fires == due /\ ~poll_pending

\* fire_poll_refresh, then the operation's own jobs.
fire_poll_refresh(jobs) ==
    /\ poll_pending' = (poll_pending \/ due)
    /\ queue' = (IF Fires THEN Append(queue, Job("poll", None, 0)) ELSE queue) \o jobs

Sent(op, fh, offset, page, gen) ==
    [NoReq EXCEPT !.op = op, !.fh = fh, !.offset = offset, !.page = page, !.gen = gen, !.state = "sent"]

Left(what) == what \in DOMAIN load /\ load[what] > 0

CanSend(op) == at[Dispatch] = None /\ next <= MaxRequests /\ Left(op)

Record(q) ==
    /\ req' = [req EXCEPT ![next] = q] /\ next' = next + 1
    /\ load' = [load EXCEPT ![q.op] = @ - 1]

\* getattr and lookup: the attributes are the pool's business.
Getattr ==
    /\ CanSend("getattr")
    /\ fire_poll_refresh(<<Job("getattr", next, 0)>>)
    /\ Record(Sent("getattr", 0, 0, 0, 0))
    /\ UNCHANGED <<tree, at, open, shared, fill, inflight, slab, backing, disabled, due, made>>

Opendir ==
    /\ CanSend("opendir")
    /\ fire_poll_refresh(<<Job("opendir", next, 0)>>)
    /\ Record(Sent("opendir", 0, 0, 0, 0))
    /\ UNCHANGED <<tree, at, open, shared, fill, inflight, slab, backing, disabled, due, made>>

\* Handles the kernel may read from: admitted, or stateless after an
\* opendir over the cap.
DirHandles ==
    {f \in Requests : open[f] # None /\ req[f].state = "answered"} \cup
    {DIR_FH_STATELESS : r \in {q \in Requests : req[q].op = "opendir" /\ req[q].state = "answered"
                                                 /\ req[q].fh = DIR_FH_STATELESS}}

Held(f) == f # DIR_FH_STATELESS

\* readdir of a held listing is answered on the spot.
Readdir(f) ==
    /\ CanSend("readdir") /\ f \in DirHandles
    /\ LET q == Sent("readdir", f, 0, 0, IF Held(f) THEN req[f].gen ELSE 0) IN
       /\ fire_poll_refresh(IF Held(f) THEN <<>> ELSE <<Job("readdir", next, 0)>>)
       /\ Record(IF Held(f) THEN [q EXCEPT !.state = "answered", !.replies = 1,
                                           !.listing = open[f].listing]
                 ELSE q)
    /\ UNCHANGED <<tree, at, open, shared, fill, inflight, slab, backing, disabled, due, made>>

\* start_plus_fill and the opening of spawn_plus_round: one count belongs
\* to the dispatcher of the round until every task is queued.
DispatcherCountNone == 0
DispatcherCount == 1

spawn_plus_round(l, start) ==
    [listing |-> l, start |-> start, upto |-> Min({start + READDIRPLUS_BATCH, Len(Entries)}),
     slots |-> {}, outstanding |-> DispatcherCount, reply |-> "held"]

RoundOf(r, start) == Doing(Job("round", r, start + 1), "dispatch", None)

Readdirplus(f, offset, page) ==
    /\ CanSend("readdirplus") /\ f \in DirHandles
    /\ Record(Sent("readdirplus", f, offset, page, IF Held(f) THEN req[f].gen ELSE 0))
    /\ IF Held(f)
       THEN /\ fire_poll_refresh(<<>>)
            /\ fill' = [fill EXCEPT ![next] = spawn_plus_round(open[f].listing, offset)]
            /\ at' = [at EXCEPT ![Dispatch] = RoundOf(next, offset)]
       ELSE /\ fire_poll_refresh(<<Job("plushead", next, 0)>>)
            /\ UNCHANGED <<fill, at>>
    /\ UNCHANGED <<tree, open, shared, inflight, slab, backing, disabled, due, made>>

\* Seeded fault: the limit is compared before the increment.
SlotsFullLate == inflight > MAX_INFLIGHT_READS

\* reserve_read_slot
SlotsFull == inflight + 1 > MAX_INFLIGHT_READS

\* read: the slot is reserved before the job is queued, or the read is shed.
Read ==
    /\ CanSend("read")
    /\ IF SlotsFull
       THEN /\ Record([Sent("read", 0, 0, 0, 0) EXCEPT !.state = "failed", !.replies = 1])
            /\ UNCHANGED <<inflight, queue>>
       ELSE /\ Record(Sent("read", 0, 0, 0, 0))
            /\ inflight' = inflight + 1
            /\ queue' = Append(queue, Job("read", next, 0))
    /\ UNCHANGED <<tree, at, open, shared, fill, slab, backing, disabled, due, poll_pending, made>>

Open ==
    /\ CanSend("open")
    /\ Record(Sent("open", 0, 0, 0, 0))
    /\ queue' = Append(queue, Job("open", next, 0))
    /\ UNCHANGED <<tree, at, open, shared, fill, inflight, slab, backing, disabled, due,
                   poll_pending, made>>

\* The kernel releases a handle it was given, once nothing uses it.
Releasedir(f) ==
    /\ at[Dispatch] = None /\ f \in DirHandles /\ Held(f)
    /\ \A r \in Requests : req[r].fh = f => req[r].state # "sent"
    /\ release_dir_handle(f)
    /\ UNCHANGED <<tree, req, next, queue, at, fill, inflight, slab, backing, disabled, due,
                   poll_pending, made, load>>

Release(f) ==
    /\ at[Dispatch] = None /\ req[f].op = "open" /\ req[f].state = "answered" /\ f \in slab
    /\ backing' = backing \ {f} /\ slab' = slab \ {f}
    /\ UNCHANGED <<tree, req, next, queue, at, open, shared, fill, inflight, disabled, due,
                   poll_pending, made, load>>

KernelStep ==
    \/ Getattr \/ Opendir \/ Read \/ Open
    \/ \E f \in DirHandles : Readdir(f) \/ Releasedir(f)
    \/ \E f \in DirHandles, p \in Pages : Readdirplus(f, p[1], p[2])
    \/ \E f \in Requests : Release(f)

(***************************************************************************)
(* The pool.                                                               *)
(***************************************************************************)
Listers == {"opendir", "readdir", "plushead"}

\* A worker takes the oldest job; listing a directory begins by pinning the
\* current tree.
TakeJob(w) ==
    /\ at[w] = None /\ queue # <<>>
    /\ LET j == Head(queue)
           lists == j.kind \in Listers
       IN  /\ at' = [at EXCEPT ![w] = Doing(j, IF lists THEN "probe" ELSE "run",
                                               IF lists THEN tree ELSE None)]
           /\ req' = IF lists THEN [req EXCEPT ![j.r].gen = tree.gen] ELSE req
    /\ queue' = Tail(queue)
    /\ UNCHANGED <<tree, next, open, shared, fill, inflight, slab, backing, disabled, due,
                   poll_pending, made, load>>

\* A task that carries no reply of its own is dropped without running.
LoseJob(w) ==
    /\ Left("lose") /\ at[w] = None /\ queue # <<>>
    /\ LET j == Head(queue) IN
       /\ j.kind \in {"poll", "plus"}
       /\ at' = [at EXCEPT ![w] = Doing(j, "guard", None)]
       /\ req' = IF j.kind = "plus" THEN [req EXCEPT ![j.r].fate[j.i] = "lost"] ELSE req
    /\ queue' = Tail(queue) /\ load' = [load EXCEPT !["lose"] = @ - 1]
    /\ UNCHANGED <<tree, next, open, shared, fill, inflight, slab, backing, disabled, due,
                   poll_pending, made>>

At(t, kind, pc) == at[t] # None /\ at[t].kind = kind /\ at[t].pc = pc

Goto(t, pc) == at' = [at EXCEPT ![t].pc = pc]

Leave(t) == at' = [at EXCEPT ![t] = None]

RunGetattr(w) ==
    /\ At(w, "getattr", "run")
    /\ req' = Reply(at[w].r, "answered") \/ req' = Errno(at[w].r)
    /\ Leave(w)
    /\ UNCHANGED <<tree, next, queue, open, shared, fill, inflight, slab, backing, disabled, due,
                   poll_pending, made, load>>

RunRead(w) ==
    /\ At(w, "read", "run")
    /\ req' = Reply(at[w].r, "answered") \/ req' = Errno(at[w].r)
    /\ Goto(w, "guard")
    /\ UNCHANGED <<tree, next, queue, open, shared, fill, inflight, slab, backing, disabled, due,
                   poll_pending, made, load>>

\* ReadSlotGuard
DropSlot(w) ==
    /\ At(w, "read", "guard")
    /\ inflight' = inflight - 1
    /\ Leave(w)
    /\ UNCHANGED <<tree, req, next, queue, open, shared, fill, slab, backing, disabled, due,
                   poll_pending, made, load>>

\* open_handle puts the handle into the slab, or fails.
OpenHandle(w) ==
    /\ At(w, "open", "run")
    /\ \/ slab' = slab \cup {at[w].r} /\ Goto(w, "reply") /\ UNCHANGED req
       \/ req' = Errno(at[w].r) /\ Leave(w) /\ UNCHANGED slab
    /\ UNCHANGED <<tree, next, queue, open, shared, fill, inflight, backing, disabled, due,
                   poll_pending, made, load>>

\* Seeded fault: the reply leaves before the registration is filed.
reply_open_early(w) ==
    \/ /\ At(w, "open", "reply") /\ ~disabled
       /\ req' = Reply(at[w].r, "answered") /\ Goto(w, "file") /\ UNCHANGED <<backing, disabled>>
       /\ UNCHANGED <<tree, next, queue, open, shared, fill, inflight, slab, due,
                      poll_pending, made, load>>
    \/ /\ At(w, "open", "file")
       /\ backing' = backing \cup {at[w].r} /\ Leave(w) /\ UNCHANGED <<req, disabled>>
       /\ UNCHANGED <<tree, next, queue, open, shared, fill, inflight, slab, due,
                      poll_pending, made, load>>

\* reply_open: register with the kernel, file the registration, reply; the
\* first refusal turns passthrough off.
reply_open(w) ==
    /\ At(w, "open", "reply")
    /\ \/ ~disabled /\ backing' = backing \cup {at[w].r} /\ UNCHANGED disabled
       \/ disabled' = TRUE /\ UNCHANGED backing
    /\ req' = Reply(at[w].r, "answered") /\ Leave(w)
    /\ UNCHANGED <<tree, next, queue, open, shared, fill, inflight, slab, due,
                   poll_pending, made, load>>

(***************************************************************************)
(* Listing a directory.                                                    *)
(***************************************************************************)

\* What an operation does with the listing it found or built.
WithListing(w, l) ==
    LET r == at[w].r IN
    CASE at[w].kind = "opendir" ->
            /\ at' = [at EXCEPT ![w].pc = "admit", ![w].listing = l]
            /\ UNCHANGED <<req, fill>>
      [] at[w].kind = "readdir" ->
            /\ req' = ReplyListing(r, l) /\ Leave(w)
            /\ UNCHANGED fill
      [] at[w].kind = "plushead" ->
            /\ fill' = [fill EXCEPT ![r] = spawn_plus_round(l, req[r].offset)]
            /\ at' = [at EXCEPT ![w] = RoundOf(r, req[r].offset)]
            /\ UNCHANGED req

\* Look in the index, under the table's lock.
Probe(w) ==
    /\ at[w] # None /\ at[w].pc = "probe"
    /\ LET l == shared_listing(at[w].snap.addr) IN
       IF l = None THEN Goto(w, "build") /\ UNCHANGED <<req, fill>> ELSE WithListing(w, l)
    /\ UNCHANGED <<tree, next, queue, open, shared, inflight, slab, backing, disabled, due,
                   poll_pending, made, load>>

\* build_dir_listing reads the pinned tree only.
build_dir_listing(w) ==
    /\ at[w] # None /\ at[w].pc = "build"
    /\ \/ /\ WithListing(w, [id |-> made + 1, gen |-> at[w].snap.gen])
          /\ made' = made + 1
       \/ /\ req' = Errno(at[w].r) /\ Leave(w)
          /\ UNCHANGED <<fill, made>>
    /\ UNCHANGED <<tree, next, queue, open, shared, inflight, slab, backing, disabled, due,
                   poll_pending, load>>

Admit(w) ==
    /\ At(w, "opendir", "admit")
    /\ LET r == at[w].r IN
       /\ try_admit_dir_handle(r, at[w].snap.addr, at[w].listing)
       /\ req' = [Reply(r, "answered") EXCEPT
                    ![r].fh = dir_open_fh(r),
                    ![r].listing = IF open'[r] = None THEN at[w].listing ELSE open'[r].listing]
    /\ Leave(w)
    /\ UNCHANGED <<tree, next, queue, fill, inflight, slab, backing, disabled, due, poll_pending,
                   made, load>>

(***************************************************************************)
(* readdirplus: rounds of resolutions, counted out.                        *)
(***************************************************************************)

\* The dispatcher of a round resolves directories itself and queues a task
\* for each file; then it gives its own count back.
DispatchEntry(t) ==
    /\ At(t, "round", "dispatch")
    /\ LET r == at[t].r
           i == at[t].i
       IN  IF i > fill[r].upto
           THEN Goto(t, "guard") /\ UNCHANGED <<queue, fill, req>>
           ELSE /\ at' = [at EXCEPT ![t].i = i + 1]
                /\ IF Entries[i] = "dir"
                   THEN /\ fill' = [fill EXCEPT ![r].slots = @ \cup {i}]
                        /\ req' = [req EXCEPT ![r].fate[i] = "resolved"]
                        /\ UNCHANGED queue
                   ELSE /\ fill' = [fill EXCEPT ![r].outstanding = @ + 1]
                        /\ queue' = Append(queue, Job("plus", r, i))
                        /\ UNCHANGED req
    /\ UNCHANGED <<tree, next, open, shared, inflight, slab, backing, disabled, due, poll_pending,
                   made, load>>

\* One entry's getattr; an error fills the slot with stand-in attributes.
ResolveEntry(w) ==
    /\ At(w, "plus", "run")
    /\ \E f \in {"resolved", "error"} : req' = [req EXCEPT ![at[w].r].fate[at[w].i] = f]
    /\ fill' = [fill EXCEPT ![at[w].r].slots = @ \cup {at[w].i}]
    /\ Goto(w, "guard")
    /\ UNCHANGED <<tree, next, queue, open, shared, inflight, slab, backing, disabled, due,
                   poll_pending, made, load>>

\* Seeded fault: a task that did not run is not counted out.
CountsOutIfRun(t) == at[t].kind = "round" \/ at[t].i \in fill[at[t].r].slots

\* PlusSlot counts out on every exit path.
CountsOut(t) == TRUE

PlusSlot(t) ==
    /\ At(t, "round", "guard") \/ At(t, "plus", "guard")
    /\ LET r == at[t].r IN
       IF CountsOut(t)
       THEN /\ fill' = [fill EXCEPT ![r].outstanding = @ - 1]
            /\ IF fill[r].outstanding = 1 THEN Goto(t, "finish") ELSE Leave(t)
       ELSE Leave(t) /\ UNCHANGED fill
    /\ UNCHANGED <<tree, req, next, queue, open, shared, inflight, slab, backing, disabled, due,
                   poll_pending, made, load>>

\* The attributes the reply carries: a slot nobody filled is unresolved.
Attr(r, i) ==
    [i |-> i, attr |-> IF i \in fill[r].slots /\ req[r].fate[i] = "resolved"
                       THEN "attrs" ELSE "stand-in"]

\* The last one out emits the round, then sends the reply or starts the next
\* round, on its own thread.
finish_plus_round(t) ==
    /\ at[t] # None /\ at[t].pc = "finish"
    /\ LET r == at[t].r
           f == fill[r]
           fit == Min({req[r].page - Len(req[r].entries), f.upto - f.start})
           filled == [req EXCEPT ![r].entries =
                        @ \o [k \in 1..fit |-> Attr(r, f.start + k)]]
           full == fit < f.upto - f.start
       IN  IF f.reply # "held" THEN Leave(t) /\ UNCHANGED <<req, fill>>
           ELSE IF full \/ f.upto >= Len(Entries)
           THEN /\ req' = [filled EXCEPT ![r].state = "answered", ![r].replies = @ + 1,
                                         ![r].listing = f.listing]
                /\ fill' = [fill EXCEPT ![r] = [NoFill EXCEPT !.reply = "sent"]]
                /\ Leave(t)
           ELSE /\ req' = filled
                /\ fill' = [fill EXCEPT ![r] = spawn_plus_round(f.listing, f.upto)]
                /\ at' = [at EXCEPT ![t] = RoundOf(r, f.upto)]
    /\ UNCHANGED <<tree, next, queue, open, shared, inflight, slab, backing, disabled, due,
                   poll_pending, made, load>>

(***************************************************************************)
(* The poll.                                                               *)
(***************************************************************************)

\* poll_refresh: the tree is replaced, found unchanged, or the poll fails.
\* The new tree is allocated while the old one is still there.
PollRefresh(w) ==
    /\ At(w, "poll", "run")
    /\ \/ \E a \in Addrs \ LiveAddrs : tree' = [gen |-> tree.gen + 1, addr |-> a]
       \/ UNCHANGED tree
    /\ due' = FALSE
    /\ Goto(w, "guard")
    /\ UNCHANGED <<req, next, queue, open, shared, fill, inflight, slab, backing, disabled,
                   poll_pending, made, load>>

\* Seeded fault: the gate stays shut while the poll it was for is due.
GateFreedByRun(w) == due

GateFreed(w) == FALSE

\* PollPendingGuard: also for a job that never ran.
DropGate(w) ==
    /\ At(w, "poll", "guard")
    /\ poll_pending' = GateFreed(w)
    /\ Leave(w)
    /\ UNCHANGED <<tree, req, next, queue, open, shared, fill, inflight, slab, backing, disabled,
                   due, made, load>>

ThreadStep(t) ==
    \/ RunGetattr(t) \/ RunRead(t) \/ DropSlot(t) \/ OpenHandle(t) \/ reply_open(t)
    \/ Probe(t) \/ build_dir_listing(t) \/ Admit(t)
    \/ DispatchEntry(t) \/ ResolveEntry(t) \/ PlusSlot(t) \/ finish_plus_round(t)
    \/ PollRefresh(t) \/ DropGate(t)

\* poll_due turns true again.
PollComesDue ==
    /\ ~due /\ Left("poll")
    /\ due' = TRUE /\ load' = [load EXCEPT !["poll"] = @ - 1]
    /\ UNCHANGED <<tree, req, next, queue, at, open, shared, fill, inflight, slab, backing,
                   disabled, poll_pending, made>>

Init ==
    /\ tree = [gen |-> 1, addr |-> CHOOSE a \in Addrs : TRUE]
    /\ req = [r \in Requests |-> NoReq] /\ next = 1
    /\ queue = <<>> /\ at = [t \in Threads |-> None]
    /\ open = [r \in Requests |-> None] /\ shared = [a \in Addrs |-> None]
    /\ fill = [r \in Requests |-> NoFill]
    /\ inflight = 0 /\ slab = {} /\ backing = {} /\ disabled = FALSE
    /\ due = FALSE /\ poll_pending = FALSE  /\ made = 0
    /\ load \in Loads

Next ==
    \/ KernelStep \/ PollComesDue
    \/ \E t \in Threads : ThreadStep(t)
    \/ \E w \in Workers : TakeJob(w) \/ LoseJob(w)

\* Threads that have something to do do it; the kernel need not ask.
Spec ==
    /\ Init /\ [][Next]_vars
    /\ \A t \in Threads : WF_vars(ThreadStep(t))
    /\ \A w \in Workers : WF_vars(TakeJob(w))

(***************************************************************************)
(* Properties.                                                             *)
(***************************************************************************)

\* Variables have their types, no request is answered twice (a second reply
\* would write to a request the kernel has forgotten), and the tables keep
\* to their caps.
TypeOK ==
    /\ tree.addr \in Addrs /\ next \in 1..(MaxRequests + 1)
    /\ \A r \in Requests : /\ req[r].state \in {"unsent", "sent", "answered", "failed"}
                           /\ req[r].replies <= 1
                           /\ fill[r].outstanding \in 0..(Len(Entries) + 1)
    /\ Cardinality({f \in Requests : open[f] # None}) <= MAX_DIR_HANDLES
    /\ inflight \in 0..MAX_INFLIGHT_READS
    /\ slab \subseteq Requests /\ {due, poll_pending, disabled} \subseteq BOOLEAN

\* A directory is listed as one generation of the tree: a listing found by
\* the address of a tree is a listing of that tree, although addresses are
\* reused, and a handle keeps the listing of the tree it was opened on.
ListingIsOfItsGeneration ==
    \A r \in Requests : req[r].listing # None => req[r].listing.gen = req[r].gen

\* The index has an entry exactly while a handle is open on its key, counts
\* those handles, and they all hold one copy of the listing.
SharedListingsAreExact ==
    \A a \in Addrs :
        IF shared[a] = None THEN HandlesOn(a) = {}
        ELSE /\ shared[a].handles = Cardinality(HandlesOn(a)) /\ HandlesOn(a) # {}
             /\ \A f \in HandlesOn(a) : open[f].listing = shared[a].listing

\* A readdirplus page has the entries from its offset on, each once and in
\* order, as many as fit, and an entry carries real attributes exactly when
\* its own resolution succeeded: no round is emitted half resolved.
PlusPageIsExact ==
    \A r \in Requests : (req[r].op = "readdirplus" /\ req[r].state = "answered") =>
        LET q == req[r]
            n == Max({0, Min({q.page, Len(Entries) - q.offset})})
        IN  /\ Len(q.entries) = n
            /\ \A k \in 1..n : /\ q.entries[k].i = q.offset + k
                               /\ q.entries[k].attr = "attrs" <=> q.fate[q.offset + k] = "resolved"

JobsOf(kind) ==
    Cardinality({k \in 1..Len(queue) : queue[k].kind = kind})
    + Cardinality({t \in Threads : at[t] # None /\ at[t].kind = kind})

\* The drop guards hold exactly what is outstanding: a read slot for every
\* read that is queued or running, so that at most MAX_INFLIGHT_READS wait,
\* and the poll gate for the one poll task there may be, run or lost.
GuardsTrackTheirTasks ==
    /\ inflight = JobsOf("read")
    /\ JobsOf("poll") = IF poll_pending THEN 1 ELSE 0

\* A file registered for passthrough has an open handle: no registration
\* is left behind by a release.
PassthroughEndsWithHandle == backing \subseteq slab

\* Every request is answered, whatever fails, panics or is lost on the way,
\* and however few workers the pool has: no task waits for another.
EveryRequestIsAnswered ==
    []<>(\A r \in Requests : req[r].state # "sent")
=============================================================================
