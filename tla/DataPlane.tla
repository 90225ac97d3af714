------------------------------ MODULE DataPlane ------------------------------
(***************************************************************************)
(* The shared-memory data plane between a client process and the daemon.   *)
(* The threads of the client share one stack: its connection, the pool     *)
(* (PoolAllocator), the registry of the mapped regions (ShmRegionRegistry) *)
(* and the transcoder that passes the buffers of an operation in a bulk    *)
(* region, in the pool or in the request.  The daemon resolves the         *)
(* references of a request to its own mappings (ShmRequestHandler) and     *)
(* executes the operation on them.  A reply can be lost while the daemon   *)
(* still works.  Sizes and offsets are bytes.  An application uses a bulk  *)
(* region from one thread, and destroys it only between operations.        *)
(***************************************************************************)
EXTENDS Integers, FiniteSets, ControlProtocol

CONSTANTS Threads,
          Places,          \* addresses at which a region can be mapped
          Sizes,           \* sizes of the callers' buffers
          SlotSize, PoolSize, BulkSize,
          Quota,           \* kMaxBytesPerClient
          InBandThreshold, \* kInBandThreshold
          MaxNodes         \* bound on the regions ever created

ASSUME GeometryAssumption ==
    /\ {SlotSize, PoolSize, BulkSize} \subseteq Nat \ {0}
    /\ SlotSize <= PoolSize
    /\ Sizes \subseteq Nat \ {0} /\ Quota \in Nat /\ InBandThreshold \in Nat

VARIABLES free,     \* PoolAllocator::m_free_sectors
          regions,  \* ShmRegionRegistry::m_regions
          obj,      \* the ShmReadWriteMemory of the pool and of every thread
          owners,   \* who holds the transcoder: the stack and the contexts
          call,     \* the operation each thread is in
          job,      \* the daemon's work on each thread's request
          nodes,    \* the daemon's ShmDataNodes, with their sizes
          next,     \* the next node id
          mem       \* the contents of every region

vars == <<free, regions, obj, owners, call, job, nodes, next, mem>>

Pool == "pool"
Stack == "stack"
Late == "late"
Objects == Threads \cup {Pool}
Jobs == Threads \cup {Late}
Nodes == 1 .. MaxNodes
Sectors == 0 .. (PoolSize \div SlotSize) - 1
Bytes == 0 .. (IF PoolSize > BulkSize THEN PoolSize ELSE BulkSize) - 1

\* What a byte holds, as far as operations tell it apart.
Stale == <<"stale">>
Corrupt == <<"corrupt">>
Strayed == <<"strayed">>
InputOf(t) == <<"input", t>>
OutputOf(t) == <<"output", t>>

Result(read) ==
    IF Strayed \in read THEN Strayed
    ELSE IF \E t \in Threads : read = {InputOf(t)}
         THEN OutputOf(CHOOSE t \in Threads : read = {InputOf(t)})
         ELSE Corrupt

NoObj == [pc |-> "none", node |-> 0, size |-> 0, place |-> 0]
NoSpan == [kind |-> "none", node |-> 0, off |-> 0, size |-> 0]
NoCall == [pc |-> "idle", in |-> NoSpan, out |-> NoSpan, ok |-> FALSE, got |-> {}]
NoJob == [pc |-> "none", params |-> <<>>, resp |-> <<>>]

Init ==
    /\ free = [s \in Sectors |-> TRUE]
    /\ regions = <<>>
    /\ obj = [m \in Objects |-> NoObj]
    /\ owners = {}
    /\ call = [t \in Threads |-> NoCall]
    /\ job = [j \in Jobs |-> NoJob]
    /\ nodes = <<>>
    /\ next = 1
    /\ mem = [n \in Nodes |-> [i \in Bytes |-> Stale]]

ExtentOf(span) == span.off .. span.off + span.size - 1
Contents(span) == {mem[span.node][i] : i \in ExtentOf(span)}
Filled(span, tag) == [mem EXCEPT ![span.node] =
                        [i \in Bytes |-> IF i \in ExtentOf(span) THEN tag ELSE @[i]]]
InShm(span) == span.kind \in {"pool", "bulk"}

(***************************************************************************)
(* PoolAllocator.                                                          *)
(***************************************************************************)
SectorsNeeded(size) == (size + SlotSize - 1) \div SlotSize

\* The free sectors from w on, counted up to needed.
ConsecutiveFree(sectors, w, needed) ==
    CHOOSE k \in 0 .. needed :
        /\ \A i \in 0 .. k - 1 : sectors[w + i]
        /\ k = needed \/ ~sectors[w + k]

AllocateContiguousChunks_SkipsWindow(sectors, needed) ==
    LET n == Cardinality(Sectors)
        From[w \in 0 .. n + needed] ==
            IF w + needed > n THEN -1
            ELSE IF ConsecutiveFree(sectors, w, needed) = needed THEN w
                 ELSE From[w + needed]
    IN From[0]

AllocateContiguousChunks(sectors, needed) ==
    LET n == Cardinality(Sectors)
        From[w \in 0 .. n + needed] ==
            IF w + needed > n THEN -1
            ELSE LET k == ConsecutiveFree(sectors, w, needed)
                 IN IF k = needed THEN w ELSE From[w + k + 1]
    IN From[0]

SectorsOf(off, size) == off \div SlotSize .. off \div SlotSize + SectorsNeeded(size) - 1

\* Deallocate, by the destructors of the spans that are in the pool.
ReleaseChunks_RoundsDown(spans) ==
    [s \in Sectors |-> \/ free[s]
                       \/ \E p \in spans : /\ p.kind = "pool"
                                           /\ s \in p.off \div SlotSize ..
                                                    p.off \div SlotSize + p.size \div SlotSize - 1]

ReleaseChunks(spans) ==
    [s \in Sectors |-> \/ free[s]
                       \/ \E p \in spans : p.kind = "pool" /\ s \in SectorsOf(p.off, p.size)]

(***************************************************************************)
(* ShmRegionRegistry.                                                      *)
(***************************************************************************)
IdentifyNode(buf) ==
    {n \in DOMAIN regions : /\ regions[n].base = buf.place
                            /\ buf.off + buf.size <= regions[n].size}

\* Only the stack and the contexts own the registry; memory objects hold a
\* weak pointer to it.
RegistryAlive == owners # {}

(***************************************************************************)
(* BufferShmTranscoder.                                                    *)
(***************************************************************************)
Span(kind, node, off, size) == [kind |-> kind, node |-> node, off |-> off, size |-> size]

Acquire(buf, isOutput) ==
    LET bulk == IdentifyNode(buf) \ {obj[Pool].node}
        at == AllocateContiguousChunks(free, SectorsNeeded(buf.size))
    IN IF bulk # {} THEN {Span("bulk", n, buf.off, buf.size) : n \in bulk}
       ELSE IF ~isOutput /\ buf.size <= InBandThreshold
            THEN {Span("inband", 0, 0, buf.size)}
       ELSE IF at = -1 THEN {NoSpan}
       ELSE {Span("pool", obj[Pool].node, at * SlotSize, buf.size)}

Reserved(span) ==
    IF span.kind # "pool" THEN free
    ELSE [s \in Sectors |-> free[s] /\ s \notin SectorsOf(span.off, span.size)]

\* The caller's buffers: on its heap, or at the end of its bulk region.
Buffers(t) ==
    {[place |-> 0, off |-> 0, size |-> s] : s \in Sizes}
      \cup {[place |-> obj[t].place, off |-> BulkSize - s, size |-> s] :
               s \in {s \in Sizes : obj[t].pc = "live" /\ s <= BulkSize}}

AcquireInput(t) ==
    /\ call[t].pc = "idle" /\ t \in owners /\ obj[t].pc \in {"none", "live"}
    /\ \E buf \in Buffers(t) : \E span \in Acquire(buf, FALSE) :
          /\ span # NoSpan
          /\ call' = [call EXCEPT ![t] = [NoCall EXCEPT !.pc = "output", !.in = span]]
          /\ free' = Reserved(span)
          /\ mem' = IF span.kind = "bulk" THEN Filled(span, InputOf(t)) ELSE mem
    /\ UNCHANGED <<regions, obj, owners, job, nodes, next>>

AcquireOutput(t) ==
    /\ call[t].pc = "output"
    /\ \E buf \in Buffers(t) : \E span \in Acquire(buf, TRUE) :
          /\ call' = [call EXCEPT ![t].pc = IF span = NoSpan THEN "done" ELSE "append",
                                  ![t].out = span]
          /\ free' = Reserved(span)
    /\ UNCHANGED <<regions, obj, owners, job, nodes, next, mem>>

(***************************************************************************)
(* The messages.  HASH_SS stands for the operations with both buffers.     *)
(***************************************************************************)
Uint64(val) == Param("uint64", val)

\* Data in the message itself; node 0 is no region.
InBand(t, size) == Param("span", [node |-> 0, off |-> 0, size |-> size, data |-> InputOf(t)])

AppendInput(b, span, t) ==
    With(b, IF InShm(span) THEN DataShm(span.node, span.off, span.size, "In")
            ELSE InBand(t, span.size))

AppendOutput(b, span) ==
    IF InShm(span) THEN With(b, DataShm(span.node, span.off, span.size, "InOut")) ELSE b

\* What the daemon reads of the parameters of a request with one operation.
ParamsOf(b, id) == Delivered(BuildControlRequest(0, b).request, id, 0).ops[1].params

\* What the client reads of the reply, which bears the id of the request.
Validated(ops, id, op) ==
    ExpectSuccess(ExpectOperation(Returned(id, [request_id |-> id, ops |-> ops]), op))

Failure(op, error) == ReturnResult(ResponseOperation(EmptyBuilder, op), error).ops

\* SendRequest: the daemon gets the request, or the call fails.
SendRequest(t) ==
    LET b == AppendOutput(AppendInput(RequestOperation(EmptyBuilder, "HASH_SS"), call[t].in, t),
                          call[t].out)
    IN
    \/ /\ BuildControlRequest(0, b).ok
       /\ job' = [job EXCEPT ![t] = [pc |-> "resolve", params |-> ParamsOf(b, t), resp |-> <<>>]]
       /\ call' = [call EXCEPT ![t].pc = "sent"]
    \/ call' = [call EXCEPT ![t].pc = "done"] /\ UNCHANGED job

\* The input is copied into the pool, and the request is sent.
AppendInputBuffer(t) ==
    /\ call[t].pc = "append"
    /\ mem' = IF call[t].in.kind = "pool" THEN Filled(call[t].in, InputOf(t)) ELSE mem
    /\ SendRequest(t)
    /\ UNCHANGED <<free, regions, obj, owners, nodes, next>>

\* The reply says how many bytes are in the output buffer.
ExtractOutputBuffer(t) ==
    LET v == Validated(job[t].resp, t, "HASH_SS")
        ok == HasParameterAt(v, 0, 0, "uint64") /\ ParameterAt(v, 0, 0) <= call[t].out.size
    IN
    /\ call[t].pc = "sent" /\ job[t].pc = "reply"
    /\ call' = [call EXCEPT ![t].pc = "done", ![t].ok = ok,
                            ![t].got = IF ok THEN Contents([call[t].out EXCEPT !.size = ParameterAt(v, 0, 0)])
                                       ELSE {}]
    /\ job' = [job EXCEPT ![t] = NoJob]
    /\ UNCHANGED <<free, regions, obj, owners, nodes, next, mem>>

\* SendRequest fails although the daemon has the request: it still works on
\* it, and the caller's buffers are released.
LoseReply(t) ==
    /\ call[t].pc = "sent" /\ job[Late].pc = "none"
    /\ call' = [call EXCEPT ![t].pc = "done"]
    /\ job' = [job EXCEPT ![t] = NoJob,
                          ![Late] = IF job[t].pc = "reply" THEN NoJob
                                    ELSE job[t]]
    /\ UNCHANGED <<free, regions, obj, owners, nodes, next, mem>>

\* ~TranscoderSpan for both buffers, at the end of the method.  What they
\* hold is of no use from here on.
ReleaseSpans(t) ==
    /\ call[t].pc = "done"
    /\ free' = ReleaseChunks({call[t].in, call[t].out})
    /\ call' = [call EXCEPT ![t] = NoCall]
    /\ mem' = [n \in Nodes |-> [i \in Bytes |->
                 IF \E p \in {call[t].in, call[t].out} : InShm(p) /\ p.node = n /\ i \in ExtentOf(p)
                 THEN Stale ELSE mem[n][i]]]
    /\ UNCHANGED <<regions, obj, owners, job, nodes, next>>

(***************************************************************************)
(* The daemon: ShmRequestHandler, and the operation behind it.             *)
(***************************************************************************)
ShmParams(j) == {p \in Range(job[j].params) : TypeOf(p) = "shm"}
SpansOf(j) == {ValOf(p) : p \in {q \in Range(job[j].params) : ValOf(q).node # 0}}

\* Another request holds the accessor of a node that j refers to.
Contended(j) ==
    \E k \in Jobs \ {j} : /\ job[k].pc = "resolve"
                          /\ \E p \in SpansOf(j), q \in SpansOf(k) : p.node = q.node

Resolvable(span) ==
    /\ span.node \in DOMAIN nodes /\ span.dir \in {"In", "InOut"}
    /\ span.off <= nodes[span.node]
    /\ span.size <= nodes[span.node] - span.off

Resolve(p) ==
    IF TypeOf(p) # "shm" THEN p
    ELSE Param(IF ValOf(p).dir = "In" THEN "span" ELSE "mut_span", ValOf(p))

\* A late job has nobody to answer.
Answer(j, ops) == IF j = Late THEN NoJob ELSE [NoJob EXCEPT !.pc = "reply", !.resp = ops]

ForwardWithResolvedShm(j) ==
    /\ job[j].pc = "resolve"
    /\ \/ /\ \A p \in ShmParams(j) : Resolvable(ValOf(p))
          /\ job' = [job EXCEPT ![j].pc = "run", ![j].params = [i \in DOMAIN @ |-> Resolve(@[i])]]
       \/ /\ Contended(j) \/ \E p \in ShmParams(j) : ~Resolvable(ValOf(p))
          /\ job' = [job EXCEPT ![j] = Answer(j, Failure("HASH_SS", "InvalidMemoryRegion"))]
    /\ UNCHANGED <<free, regions, obj, owners, call, nodes, next, mem>>

\* Only bytes in use are told apart.
StrayWrite(span) ==
    [mem EXCEPT ![span.node] =
        [i \in Bytes |-> IF i \in ExtentOf(span) /\ @[i] # Stale THEN Strayed ELSE @[i]]]

RunOperation_AtBase(j) ==
    LET in == ValOf(job[j].params[1])
        out == ValOf(job[j].params[2])
        read == IF in.node = 0 THEN {in.data} ELSE Contents(in)
    IN
    /\ job[j].pc = "run"
    /\ \/ /\ job' = [job EXCEPT ![j] = Answer(j, Failure("HASH_SS", "OperationFailed"))]
          /\ UNCHANGED mem
       \/ /\ job' = [job EXCEPT ![j] = Answer(j,
                        ReturnOperationResponse(EmptyBuilder, "HASH_SS", Success, <<Uint64(out.size)>>).ops)]
          /\ mem' = IF out.node \notin DOMAIN nodes THEN mem
                    ELSE IF j = Late THEN StrayWrite(out)
                    ELSE Filled([out EXCEPT !.off = 0], Result(read))
    /\ UNCHANGED <<free, regions, obj, owners, call, nodes, next>>

\* The operation fails, or reads its input and writes its output.
RunOperation(j) ==
    LET in == ValOf(job[j].params[1])
        out == ValOf(job[j].params[2])
        read == IF in.node = 0 THEN {in.data} ELSE Contents(in)
    IN
    /\ job[j].pc = "run"
    /\ \/ /\ job' = [job EXCEPT ![j] = Answer(j, Failure("HASH_SS", "OperationFailed"))]
          /\ UNCHANGED mem
       \/ /\ job' = [job EXCEPT ![j] = Answer(j,
                        ReturnOperationResponse(EmptyBuilder, "HASH_SS", Success, <<Uint64(out.size)>>).ops)]
          /\ mem' = IF out.node \notin DOMAIN nodes THEN mem
                    ELSE IF j = Late THEN StrayWrite(out)
                    ELSE Filled(out, Result(read))
    /\ UNCHANGED <<free, regions, obj, owners, call, nodes, next>>

(***************************************************************************)
(* The memory objects: SHM_SETUP, mapping, and ~ShmReadWriteMemory.        *)
(***************************************************************************)
Usage == FoldFunction(LAMBDA size, sum : size + sum, 0, nodes)

\* Asking for the pool, the client leaves the size to the daemon.
SetupRequest(m) ==
    WithAll(RequestOperation(EmptyBuilder, "SHM_SETUP"),
            <<Uint64(IF m = Pool THEN 0 ELSE BulkSize), Uint64("no_type"), Uint64("no_provider"),
              Uint64(IF m = Pool THEN 1 ELSE 0)>>)

\* HandleShmCreateObject: is_pool is the parameter at position 3.
IsPool(params) == Len(params) > 3 /\ ValOf(params[4]) # 0
SizeAsked(params) == IF IsPool(params) THEN PoolSize ELSE ValOf(params[1])

SetupReply(node, params) ==
    LET values == <<Uint64(node), Uint64(SizeAsked(params)), Param("owned_buffer", "token"),
                    Uint64("posix")>>
                    \o IF IsPool(params) THEN <<Uint64(SlotSize), Uint64(Quota)>> ELSE <<>>
    IN ReturnResult(FoldLeft(ReturnValue, ResponseOperation(EmptyBuilder, "SHM_SETUP"), values),
                    Success).ops

\* The client needs the node, the size and the token; for the pool also its
\* geometry, which must make sense.
Accepted(m, v) ==
    /\ \A i \in {0, 1} : HasParameterAt(v, 0, i, "uint64")
    /\ HasParameterAt(v, 0, 2, "owned_buffer")
    /\ m = Pool =>
          /\ \A i \in {4, 5} : HasParameterAt(v, 0, i, "uint64") /\ ParameterAt(v, 0, i) # 0
          /\ ParameterAt(v, 0, 1) # 0 /\ ParameterAt(v, 0, 1) >= ParameterAt(v, 0, 4)

\* SHM_SETUP; the daemon answers kQuotaExceeded above the quota.
ShmSetup(m) ==
    LET params == ParamsOf(SetupRequest(m), m)
        v == Validated(SetupReply(next, params), m, "SHM_SETUP")
    IN
    /\ obj[m].pc = "none" /\ next <= MaxNodes
    /\ Usage + SizeAsked(params) <= Quota
    /\ nodes' = (next :> SizeAsked(params)) @@ nodes
    /\ next' = next + 1
    /\ obj' = [obj EXCEPT ![m] =
                 IF Accepted(m, v)
                 THEN [pc |-> "map", node |-> ParameterAt(v, 0, 0), size |-> ParameterAt(v, 0, 1),
                       place |-> 0]
                 ELSE NoObj]
    /\ UNCHANGED <<free, regions, owners, call, job, mem>>

\* CreateCryptoStack, up to the reply to its SHM_SETUP.
SetupDataPlane == owners = {} /\ ShmSetup(Pool)

AllocateInternal(t) == Stack \in owners /\ call[t].pc = "idle" /\ ShmSetup(t)

\* ShmMemoryFactory::Create maps the region and registers it.  When it
\* fails the daemon keeps the node: nobody sends SHM_DESTROY_OBJECT.
FactoryCreate(m) ==
    /\ obj[m].pc = "map"
    /\ \/ \E place \in Places \ {obj[k].place : k \in Objects} :
             /\ obj' = [obj EXCEPT ![m].pc = "live", ![m].place = place]
             /\ regions' = IF m = Pool \/ RegistryAlive
                           THEN (obj[m].node :> [base |-> place, size |-> obj[m].size]) @@ regions
                           ELSE regions
       \/ obj' = [obj EXCEPT ![m] = NoObj] /\ UNCHANGED regions
    /\ UNCHANGED <<call, job, nodes, next, mem>>

\* The rest of CreateCryptoStack, with PoolAllocator::Create.
CreateCryptoStack ==
    /\ FactoryCreate(Pool)
    /\ free' = [s \in Sectors |-> TRUE]
    /\ owners' = IF obj'[Pool].pc = "live" THEN {Stack} ELSE {}

AllocateBulk(t) == FactoryCreate(t) /\ UNCHANGED <<free, owners>>

\* The application destroys a bulk region: first it leaves the registry.
Unregister(t) ==
    /\ obj[t].pc = "live" /\ call[t].pc = "idle"
    /\ obj' = [obj EXCEPT ![t].pc = "unregistered"]
    /\ regions' = Restrict(regions, DOMAIN regions \ {obj[t].node})
    /\ UNCHANGED <<free, owners, call, job, nodes, next, mem>>

\* SHM_DESTROY_OBJECT; its outcome is ignored, and it may not arrive.
DestroyRequest(m) ==
    LET b == With(RequestOperation(EmptyBuilder, "SHM_DESTROY_OBJECT"), Uint64(obj[m].node))
        n == ValOf(ParamsOf(b, m)[1])
    IN
    /\ obj[m].pc = "unregistered"
    /\ obj' = [obj EXCEPT ![m].pc = "destroyed"]
    /\ \/ /\ nodes' = Restrict(nodes, DOMAIN nodes \ {n})
          /\ mem' = [mem EXCEPT ![n] = [i \in Bytes |-> Stale]]
       \/ UNCHANGED <<nodes, mem>>
    /\ UNCHANGED <<free, regions, owners, call, job, next>>

Unmap(m) ==
    /\ obj[m].pc = "destroyed"
    /\ obj' = [obj EXCEPT ![m] = NoObj]
    /\ UNCHANGED <<free, regions, owners, call, job, nodes, next, mem>>

(***************************************************************************)
(* The stack and the contexts share the transcoder, and through it the     *)
(* pool and the registry, which go with the last of them.                  *)
(***************************************************************************)
CreateCryptoContext(t) ==
    /\ Stack \in owners /\ t \notin owners /\ call[t].pc = "idle"
    /\ owners' = owners \cup {t}
    /\ UNCHANGED <<free, regions, obj, call, job, nodes, next, mem>>

DropOwner_WithStack(o) ==
    /\ o \in owners /\ (o \in Threads => call[o].pc = "idle")
    /\ owners' = IF o = Stack THEN {} ELSE owners \ {o}
    /\ IF owners' = {}
       THEN regions' = <<>> /\ obj' = [obj EXCEPT ![Pool].pc = "unregistered"]
       ELSE UNCHANGED <<regions, obj>>
    /\ UNCHANGED <<free, call, job, nodes, next, mem>>

DropOwner(o) ==
    /\ o \in owners /\ (o \in Threads => call[o].pc = "idle")
    /\ owners' = owners \ {o}
    /\ IF owners' = {}
       THEN regions' = <<>> /\ obj' = [obj EXCEPT ![Pool].pc = "unregistered"]
       ELSE UNCHANGED <<regions, obj>>
    /\ UNCHANGED <<free, call, job, nodes, next, mem>>

Next ==
    \/ SetupDataPlane \/ CreateCryptoStack
    \/ \E t \in Threads :
          \/ AcquireInput(t) \/ AcquireOutput(t) \/ AppendInputBuffer(t)
          \/ ExtractOutputBuffer(t) \/ LoseReply(t) \/ ReleaseSpans(t)
          \/ AllocateInternal(t) \/ AllocateBulk(t) \/ Unregister(t)
          \/ CreateCryptoContext(t)
    \/ \E j \in Jobs : ForwardWithResolvedShm(j) \/ RunOperation(j)
    \/ \E m \in Objects : DestroyRequest(m) \/ Unmap(m)
    \/ \E o \in Threads \cup {Stack} : DropOwner(o)

Spec == Init /\ [][Next]_vars

(***************************************************************************)
(* Properties.                                                             *)
(***************************************************************************)
PoolSpans == {<<t, d>> \in Threads \X {"in", "out"} : call[t][d].kind = "pool"}
SectorsHeld(p) == SectorsOf(call[p[1]][p[2]].off, call[p[1]][p[2]].size)

\* The sectors PoolAllocator marks as taken are exactly those of the live
\* pool spans, and no sector belongs to two of them: nothing is handed out
\* twice and nothing is lost, on any path through Acquire and the
\* destructors of the spans.
PoolAccounting ==
    owners # {} =>
        /\ {s \in Sectors : ~free[s]} = UNION {SectorsHeld(p) : p \in PoolSpans}
        /\ \A p, q \in PoolSpans : p # q => SectorsHeld(p) \cap SectorsHeld(q) = {}

\* AllocateContiguousChunks, which skips past the blocker of a window, finds
\* the first window there is, and fails only when there is none.
FirstFitExact ==
    \A needed \in 1 .. Cardinality(Sectors) + 1 :
        LET windows == {w \in Sectors : \A i \in w .. w + needed - 1 : i \in Sectors /\ free[i]}
            found == AllocateContiguousChunks(free, needed)
        IN IF windows = {} THEN found = -1
           ELSE found \in windows /\ \A w \in windows : found <= w

\* A successful operation returns what the daemon computed from this call's
\* input, whatever the other threads do with the pool; only a request whose
\* reply was lost can still write into a slot that has a new user.
OutputIsOwn ==
    \A t \in Threads :
        call[t].pc = "done" /\ call[t].ok =>
            call[t].got = {OutputOf(t)} \/ Strayed \in call[t].got

\* A registered region is mapped by the memory object that registered it and
\* exists in the daemon, so an address is never taken for a region that used
\* to be there (~ShmReadWriteMemory unregisters before it unmaps).
RegistryFaithful ==
    \A n \in DOMAIN regions :
        /\ n \in DOMAIN nodes /\ nodes[n] = regions[n].size
        /\ \E m \in Objects : /\ obj[m].pc = "live"
                              /\ obj[m].node = n /\ obj[m].place = regions[n].base

\* ShmRequestHandler drops the accessor of a region before the operation runs
\* on it; the region nevertheless stays until the reply, because the context
\* of the call keeps the pool alive.
ResolvedSpanMapped ==
    \A t \in Threads : job[t].pc = "run" => \A p \in SpansOf(t) : p.node \in DOMAIN nodes

\* Both: on either side, a region that can be addressed is there.
RegionsMapped == RegistryFaithful /\ ResolvedSpanMapped

=============================================================================
