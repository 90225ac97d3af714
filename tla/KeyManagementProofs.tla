------------------------ MODULE KeyManagementProofs ------------------------
(***************************************************************************)
(* Theorems about the keys of the daemon's clients, for any configuration, *)
(* any number of threads, contexts and keys, and any number of lost        *)
(* replies: what KeyRegistryProofs shows of the registry holds with the    *)
(* daemon's requests, and a guard keeps its key.                           *)
(***************************************************************************)
EXTENDS KeyRegistryProofs

USE ZenonT(30)

----------------------------------------------------------------------------
(* Replies.                                                                *)

\* The client of w has its answer, or waits no more; k is what is left of the call.
Answered(w, k) ==
    /\ UNCHANGED vars
    /\ call' = [call EXCEPT ![w] = k] /\ CallOK(k, job[w]) /\ ~k.alive
    /\ \/ k.op = "none" /\ k.ctx = NoContext
       \/ k.op = call[w].op /\ k.ctx = call[w].ctx /\ k.stage = call[w].stage /\ k.ok = call[w].ok

\* The jobs, the nodes and the calls of the others stay; so does what they wait for.
LEMMA AnsweredFacts ==
  ASSUME KmInv, NEW w \in Worker, NEW k, Answered(w, k)
  PROVE  /\ RegistryInv' /\ UNCHANGED <<job, node, contexts>>
         /\ call'[w] = k /\ (\A v \in Worker \ {w} : call'[v] = call[v])
         /\ call' = [v \in Worker |-> call'[v]]
         /\ \A v \in Worker : CallOK(call'[v], job'[v])
         /\ \A v \in Worker, r \in Ref : Result(call'[v], job'[v], r) => v # w /\ Result(call[v], job[v], r)
<1>1. UNCHANGED <<keys, slotToId, nextId, refCount, node, contexts, job>> BY DEF Answered, vars
<1>2. RegistryInv' BY <1>1, RegistryUntouched DEF KmInv
<1>3. /\ call'[w] = k /\ (\A v \in Worker \ {w} : call'[v] = call[v])
      /\ call' = [v \in Worker |-> call'[v]]
  BY DEF KmInv, KmType, Answered
<1>4. \A v \in Worker : CallOK(call'[v], job'[v]) BY <1>1, <1>3 DEF KmInv, KmType, Answered
<1>5. ASSUME NEW v \in Worker, NEW r \in Ref, Result(call'[v], job'[v], r)
      PROVE  v # w /\ Result(call[v], job[v], r)
  <2>1. v # w BY <1>3, <1>5 DEF Result, Answered
  <2> QED BY <1>1, <1>3, <1>5, <2>1
<1> QED BY <1>1, <1>2, <1>3, <1>4, <1>5

\* The reply makes guards or ends them.
LEMMA GuardAnswered ==
  ASSUME KmInv, NEW w \in Worker, NEW k, Answered(w, k), k.op # "open", UNCHANGED obj,
         guard' \in [Ref -> GuardRecord],
         \A q \in Ref : \/ guard'[q] = guard[q]
                        \/ guard'[q].state = "none" /\ guard'[q].ctx = NoContext
                        \/ /\ Result(call[w], job[w], q)
                           /\ guard'[q].state = "held" /\ guard'[q].ctx = call[w].ctx
  PROVE  KmInv'
<1>1. /\ RegistryInv' /\ UNCHANGED <<job, node, contexts>>
      /\ call'[w] = k /\ (\A v \in Worker \ {w} : call'[v] = call[v])
      /\ call' = [v \in Worker |-> call'[v]]
      /\ \A v \in Worker : CallOK(call'[v], job'[v])
      /\ \A v \in Worker, r \in Ref : Result(call'[v], job'[v], r) => v # w /\ Result(call[v], job[v], r)
  BY AnsweredFacts
<1>2. ASSUME NEW q \in Ref, Result(call[w], job[w], q)
      PROVE  /\ call[w].ctx \in Context /\ call[w].ctx # NoContext /\ obj[call[w].ctx] = "open"
             /\ call[w].ctx \in contexts /\ Attached(q) /\ node[q].ctx = call[w].ctx
             /\ \A v \in Worker \ {w} : ~Result(call[v], job[v], q)
  <2>1. call[w].alive /\ call[w].op \in Makers BY <1>2 DEF Result
  <2>2. call[w].ctx \in Context BY <2>1 DEF KmInv, KmType, CallOK, Makers
  <2>3. obj[call[w].ctx] = "open" /\ call[w].ctx \in contexts BY <2>1, <2>2 DEF KmInv, Objects
  <2> QED BY <1>2, <2>2, <2>3, ConstantsOK DEF KmInv, Results
<1>3. KmType'
  <2>1. \A q \in Ref : GuardOK(q)' BY <1>2 DEF KmInv, KmType, GuardOK
  <2> QED BY <1>1, <2>1 DEF KmInv, KmType
<1>4. Nodes'
  <2> SUFFICES ASSUME NEW v \in Worker, At(v, "attach") PROVE guard'[job[v].ref].state = "none"
    BY <1>1 DEF KmInv, Nodes, At
  <2>1. job[v].ref \in Ref BY DEF At, KmInv, RegistryInv, RegistryType, JobOK, Job
  <2>2. job[v].ref \in Mine(job[v]) BY <2>1 DEF Mine
  <2>3. guard[job[v].ref].state = "none" /\ ~Attached(job[v].ref)
    BY <2>1, <2>2 DEF KmInv, Nodes, RegistryInv, Owners, Attached
  <2> QED BY <1>2, <2>1, <2>3
<1>5. Objects'
  <2>1. \A q \in Ref, c \in Context : guard'[q].ctx = c => obj[c] \in {"open", "dropped"}
    BY <1>2, ConstantsOK, SMT DEF KmInv, Objects
  <2>2. \A v \in Worker : call'[v].alive /\ call'[v].op \in Makers => obj[call'[v].ctx] = "open"
    BY <1>1, SMT DEF Answered, KmInv, Objects
  <2>3. ASSUME NEW v \in Worker, call'[v].op = "open"
        PROVE  /\ obj[call'[v].ctx] = IF call'[v].alive THEN "opening" ELSE "none"
               /\ call'[v].stage # "reply" \/ call'[v].ok => call'[v].ctx \in contexts
               /\ \A u \in Worker \ {v} : call'[u].ctx # call'[v].ctx
    <3>1. v # w /\ call'[v] = call[v] /\ call[v].op = "open" BY <1>1, <2>3
    <3>2. call[v].ctx \in Context BY <3>1 DEF KmInv, KmType, CallOK
    <3>3. k.ctx # call[v].ctx BY <3>1, <3>2, ConstantsOK, SMT DEF Answered, KmInv, Objects
    <3>4. /\ obj[call[v].ctx] = IF call[v].alive THEN "opening" ELSE "none"
          /\ call[v].stage # "reply" \/ call[v].ok => call[v].ctx \in contexts
          /\ \A u \in Worker \ {v} : call[u].ctx # call[v].ctx
      BY <3>1 DEF KmInv, Objects
    <3> QED BY <1>1, <3>1, <3>3, <3>4
  <2>4. \A v \in Worker : call'[v].op = "close" /\ call'[v].alive => v # w /\ call'[v] = call[v]
    BY <1>1 DEF Answered
  <2>5. \A v \in Worker : call'[v].op = "close" /\ call'[v].alive =>
        /\ obj[call'[v].ctx] = "closing"
        /\ \A u \in Worker \ {v} :
            call'[u].op = "close" /\ call'[u].alive => call'[u].ctx # call'[v].ctx
    BY <2>4, SMT DEF KmInv, Objects
  <2>6. \A c \in Context : obj[c] \in {"open", "dropped"} => c \in contexts BY DEF KmInv, Objects
  <2> QED BY <1>1, <2>1, <2>2, <2>3, <2>5, <2>6 DEF Objects
<1>6. Results'
  <2> SUFFICES ASSUME NEW v \in Worker, NEW r \in Ref, Result(call'[v], job'[v], r)
               PROVE  /\ Attached(r)' /\ node'[r].ctx = call'[v].ctx /\ guard'[r].state = "none"
                      /\ \A u \in Worker \ {v} : ~Result(call'[u], job'[u], r)
    BY SMT DEF Results, Result
  <2>1. v # w /\ Result(call[v], job[v], r) BY <1>1
  <2>2. /\ Attached(r) /\ node[r].ctx = call[v].ctx /\ guard[r].state = "none"
        /\ \A u \in Worker \ {v} : ~Result(call[u], job[u], r)
    BY <2>1 DEF KmInv, Results
  <2>3. guard'[r].state = "none" BY <1>2, <2>1, <2>2
  <2> QED BY <1>1, <2>1, <2>2, <2>3 DEF Attached
<1>7. GuardedKeyAlive' BY <1>1, <1>2, SMT DEF KmInv, GuardedKeyAlive, Attached
<1> QED BY <1>1, <1>3, <1>4, <1>5, <1>6, <1>7 DEF KmInv

\* The reply opens a context object or ends it.
LEMMA ObjectAnswered ==
  ASSUME KmInv, NEW w \in Worker, NEW k, Answered(w, k), UNCHANGED guard,
         call[w].alive, call[w].op \in {"open", "close"}, NEW x \in {"none", "open"},
         obj' = [obj EXCEPT ![call[w].ctx] = x],
         x = "open" => /\ k.op = "none" /\ call[w].op = "open"
                       /\ call[w].ctx \in contexts
  PROVE  KmInv'
<1> DEFINE c == call[w].ctx
<1>1. /\ RegistryInv' /\ UNCHANGED <<job, node, contexts>>
      /\ call'[w] = k /\ (\A v \in Worker \ {w} : call'[v] = call[v])
      /\ call' = [v \in Worker |-> call'[v]]
      /\ \A v \in Worker : CallOK(call'[v], job'[v])
      /\ \A v \in Worker, r \in Ref : Result(call'[v], job'[v], r) => v # w /\ Result(call[v], job[v], r)
  BY AnsweredFacts
<1>2. c \in Context /\ c # NoContext BY ConstantsOK DEF KmInv, KmType, CallOK
<1>3. /\ obj[c] \in {"opening", "closing"}
      /\ call[w].op = "open" => obj[c] = "opening" /\ \A v \in Worker \ {w} : call[v].ctx # c
      /\ call[w].op = "close" => obj[c] = "closing"
  BY DEF KmInv, Objects
<1> HIDE DEF c
<1>4. obj'[c] = x /\ \A d \in Context \ {c} : obj'[d] = obj[d] BY <1>2 DEF c, KmInv, KmType
<1>5. KmType'
  <2>1. obj' \in [Context -> {"none", "opening", "open", "dropped", "closing"}] BY DEF KmInv, KmType
  <2>2. \A q \in Ref : GuardOK(q)' BY DEF KmInv, KmType, GuardOK
  <2> QED BY <1>1, <2>1, <2>2 DEF KmInv, KmType
<1>6. Nodes' BY <1>1 DEF KmInv, Nodes, At
<1>7. Objects'
  <2>1. \A q \in Ref, d \in Context : guard[q].ctx = d => obj'[d] \in {"open", "dropped"}
    BY <1>3, <1>4, SMT DEF KmInv, Objects
  <2>2. \A d \in Context : obj'[d] \in {"open", "dropped"} => d \in contexts
    BY <1>4 DEF c, KmInv, Objects
  <2>3. ASSUME NEW v \in Worker, call'[v].alive, call'[v].op \in Makers
        PROVE  obj'[call'[v].ctx] = "open"
    <3>1. v # w /\ call'[v] = call[v] BY <1>1, <2>3 DEF Answered
    <3>2. call[v].ctx \in Context BY <2>3, <3>1 DEF KmInv, KmType, CallOK, Makers
    <3>3. obj[call[v].ctx] = "open" BY <2>3, <3>1 DEF KmInv, Objects
    <3> QED BY <1>3, <1>4, <3>1, <3>2, <3>3
  <2>4. ASSUME NEW v \in Worker, call'[v].op = "open"
        PROVE  /\ obj'[call'[v].ctx] = IF call'[v].alive THEN "opening" ELSE "none"
               /\ call'[v].stage # "reply" \/ call'[v].ok => call'[v].ctx \in contexts
               /\ \A u \in Worker \ {v} : call'[u].ctx # call'[v].ctx
    <3>1. CASE v = w
      <4>1. call'[v] = k /\ k.ctx = c /\ ~k.alive /\ k.stage = call[w].stage /\ k.ok = call[w].ok
            /\ call[w].op = "open" /\ x = "none"
        BY <1>1, <2>4, <3>1 DEF Answered, c
      <4>2. call[w].stage # "reply" \/ call[w].ok => c \in contexts BY <4>1 DEF KmInv, Objects, c
      <4> QED BY <1>1, <1>3, <1>4, <3>1, <4>1, <4>2
    <3>2. CASE v # w
      <4>1. call'[v] = call[v] /\ call[v].op = "open" BY <1>1, <2>4, <3>2
      <4>2. call[v].ctx \in Context BY <4>1 DEF KmInv, KmType, CallOK
      <4>3. /\ obj[call[v].ctx] = IF call[v].alive THEN "opening" ELSE "none"
            /\ call[v].stage # "reply" \/ call[v].ok => call[v].ctx \in contexts
            /\ \A u \in Worker \ {v} : call[u].ctx # call[v].ctx
        BY <4>1 DEF KmInv, Objects
      <4>4. call[v].ctx # c BY <3>2, <4>3 DEF c
      <4>5. k.ctx # call[v].ctx BY <4>2, <4>4, ConstantsOK DEF Answered, c
      <4> QED BY <1>1, <1>4, <3>2, <4>1, <4>2, <4>3, <4>4, <4>5, SMT
    <3> QED BY <3>1, <3>2
  <2>5. ASSUME NEW v \in Worker, call'[v].op = "close", call'[v].alive
        PROVE  /\ obj'[call'[v].ctx] = "closing"
               /\ \A u \in Worker \ {v} :
                    call'[u].op = "close" /\ call'[u].alive => call'[u].ctx # call'[v].ctx
    <3>1. \A u \in Worker : call'[u].op = "close" /\ call'[u].alive => u # w /\ call'[u] = call[u]
      BY <1>1 DEF Answered
    <3>2. call[v].ctx \in Context BY <2>5, <3>1 DEF KmInv, KmType, CallOK
    <3>3. obj[call[v].ctx] = "closing" /\ \A u \in Worker \ {v} :
             call[u].op = "close" /\ call[u].alive => call[u].ctx # call[v].ctx
      BY <2>5, <3>1, SMT DEF KmInv, Objects
    <3>4. call[v].ctx # c
      <4>1. CASE call[w].op = "open" BY <1>3, <3>3, <4>1
      <4>2. CASE call[w].op = "close" BY <2>5, <3>1, <3>3, <4>2 DEF c
      <4> QED BY <4>1, <4>2
    <3> QED BY <1>4, <2>5, <3>1, <3>2, <3>3, <3>4
  <2> QED BY <1>1, <2>1, <2>2, <2>3, <2>4, <2>5 DEF Objects
<1>8. Results' BY <1>1, SMT DEF KmInv, Results, Attached, Result
<1>9. GuardedKeyAlive' BY <1>1 DEF KmInv, GuardedKeyAlive, Attached
<1> QED BY <1>1, <1>5, <1>6, <1>7, <1>8, <1>9 DEF KmInv

LEMMA NoCallOK ==
  ASSUME NEW j, j.pc = "idle", NEW k, k = NoCall
  PROVE  CallOK(k, j) /\ k.op = "none" /\ k.ctx = NoContext /\ ~k.alive
<1>1. PICK e, n, f, l, a : e = <<>> /\ n = NoRef /\ f = FALSE /\ l = FALSE /\ a = NoKeyAsked OBVIOUS
<1>2. k = [op |-> "none", ctx |-> NoContext, ref |-> n, arg |-> a, request |-> e, stage |-> "none",
           ok |-> f, out |-> n, alive |-> l]
  BY <1>1 DEF NoCall
<1>3. /\ k.op = "none" /\ k.ctx = NoContext /\ k.ref = n /\ k.arg = a /\ k.stage = "none"
      /\ k.ok = f /\ k.out = n /\ k.alive = l
  BY <1>2, SMT
<1>4. k = [op |-> k.op, ctx |-> k.ctx, ref |-> k.ref, arg |-> k.arg, request |-> k.request,
           stage |-> k.stage, ok |-> k.ok, out |-> k.out, alive |-> k.alive]
  BY <1>2
<1>5. CallRecord(k) BY <1>1, <1>3, <1>4 DEF CallRecord, CallOp, CallStage
<1> QED BY <1>1, <1>3, <1>5 DEF CallOK

\* What the client makes of a reply, or of having none, fits the two lemmas above.
LEMMA AfterReply ==
  ASSUME KmInv, NEW w \in Worker, NEW k, Answered(w, k), call[w].alive, NEW ok \in BOOLEAN, NEW out \in Ref \cup {NoRef},
         guard' = GuardAfter(call[w], ok, out), obj' = ObjectAfter(call[w], ok),
         out # NoRef /\ call[w].op \in Makers => Result(call[w], job[w], out),
         k.op = "open" => ~ok,
         ok /\ call[w].op = "open" => k.op = "none" /\ call[w].ctx \in contexts
  PROVE  KmInv'
<1>1. CallOK(call[w], job[w]) /\ call[w].op # "none" /\ call[w].ctx \in Context BY DEF KmInv, KmType, CallOK
<1>2. k.op = "none" \/ k.op = call[w].op BY DEF Answered
<1>3. guard \in [Ref -> GuardRecord] BY DEF KmInv, KmType
<1>4. CASE call[w].op \in Makers /\ out # NoRef
  <2>1. PICK t \in {"key", "shared"} :
          t = IF call[w].op \in {"encapsulate", "decapsulate"} THEN "shared" ELSE "key"
    OBVIOUS
  <2>2. PICK g : g = [state |-> "held", ctx |-> call[w].ctx, type |-> t] OBVIOUS
  <2>3. guard' = [guard EXCEPT ![out] = g] BY <1>4, <2>1, <2>2 DEF GuardAfter, Makers
  <2>4. g \in GuardRecord /\ g.state = "held" /\ g.ctx = call[w].ctx BY <1>1, <2>2 DEF GuardRecord
  <2>5. out \in Ref /\ Result(call[w], job[w], out) BY <1>4
  <2>6. guard' \in [Ref -> GuardRecord] /\ guard'[out] = g /\ \A q \in Ref \ {out} : guard'[q] = guard[q]
    BY <1>3, <2>3, <2>4, <2>5
  <2>7. obj' = obj /\ k.op # "open" BY <1>2, <1>4 DEF ObjectAfter, Makers
  <2> QED BY <2>4, <2>5, <2>6, <2>7, GuardAnswered
<1>5. CASE call[w].op = "drop" \/ (call[w].op = "release" /\ ok)
  <2>1. call[w].ref \in Ref BY <1>1, <1>5 DEF CallOK
  <2>2. guard' = [guard EXCEPT ![call[w].ref] = NoGuard] BY <1>5 DEF GuardAfter
  <2>3. NoGuard \in GuardRecord /\ NoGuard.state = "none" /\ NoGuard.ctx = NoContext
    BY DEF NoGuard, GuardRecord
  <2>4. /\ guard' \in [Ref -> GuardRecord] /\ guard'[call[w].ref] = NoGuard
        /\ \A q \in Ref \ {call[w].ref} : guard'[q] = guard[q]
    BY <1>3, <2>1, <2>2, <2>3
  <2>5. obj' = obj /\ k.op # "open" BY <1>2, <1>5 DEF ObjectAfter
  <2> QED BY <2>1, <2>3, <2>4, <2>5, GuardAnswered
<1>6. CASE call[w].op \in {"open", "close"}
  <2>1. guard' = guard BY <1>6 DEF GuardAfter
  <2>2. PICK x \in {"none", "open"} : /\ obj' = [obj EXCEPT ![call[w].ctx] = x]
                                      /\ x = "open" => ok /\ call[w].op = "open"
    BY <1>6 DEF ObjectAfter
  <2> QED BY <1>6, <2>1, <2>2, ObjectAnswered
<1>7. CASE /\ call[w].op \notin {"open", "close", "drop"}
           /\ ~(call[w].op \in Makers /\ out # NoRef) /\ ~(call[w].op = "release" /\ ok)
  <2>1. guard' = guard BY <1>7 DEF GuardAfter, Makers
  <2>2. obj' = obj /\ k.op # "open" BY <1>2, <1>7 DEF ObjectAfter
  <2> QED BY <1>3, <2>1, <2>2, GuardAnswered
<1> QED BY <1>4, <1>5, <1>6, <1>7

\* The reply reaches the client, if it still waits.
LEMMA ReplyKeeps ==
  ASSUME KmInv, NEW w \in Worker, Reply(w)
  PROVE  KmInv'
<1>1. call[w].stage = "reply" /\ job[w].pc = "idle" /\ UNCHANGED vars BY DEF Reply, Stage, At
<1>2. PICK k : k = NoCall OBVIOUS
<1>3. CallOK(k, job[w]) /\ k.op = "none" /\ k.ctx = NoContext /\ ~k.alive BY <1>1, <1>2, NoCallOK
<1>4. Answered(w, k) BY <1>1, <1>2, <1>3 DEF Answered, Reply
<1>5. CallRecord(call[w]) BY DEF KmInv, KmType, CallOK
<1>6. CASE call[w].alive
  <2>1. PICK ok \in BOOLEAN, out \in Ref \cup {NoRef} : ok = call[w].ok /\ out = call[w].out
    BY <1>5 DEF CallRecord
  <2>2. guard' = GuardAfter(call[w], ok, out) /\ obj' = ObjectAfter(call[w], ok)
    BY <1>6, <2>1 DEF Reply
  <2>3. call[w].op \in Makers => Result(call[w], job[w], out) BY <1>1, <1>6, <2>1 DEF Result
  <2>4. ok /\ call[w].op = "open" => call[w].ctx \in contexts BY <2>1 DEF KmInv, Objects
  <2> QED BY <1>3, <1>4, <1>6, <2>2, <2>3, <2>4, AfterReply
<1>7. CASE ~call[w].alive
  <2>1. UNCHANGED <<guard, obj>> BY <1>7 DEF Reply
  <2>2. guard \in [Ref -> GuardRecord] BY DEF KmInv, KmType
  <2> QED BY <1>3, <1>4, <2>1, <2>2, GuardAnswered
<1> QED BY <1>6, <1>7

\* The client waits no more.
LEMMA ReplyLostKeeps ==
  ASSUME KmInv, NEW w \in Worker, ReplyLost(w)
  PROVE  KmInv'
<1>1. call[w].alive /\ UNCHANGED vars /\ CallOK(call[w], job[w]) /\ CallRecord(call[w])
  BY DEF ReplyLost, KmInv, KmType, CallOK
<1>2. PICK f \in BOOLEAN : f = FALSE OBVIOUS
<1> DEFINE k == [call[w] EXCEPT !.alive = f]
<1>3. call' = [call EXCEPT ![w] = k] BY <1>2 DEF ReplyLost
<1>4. /\ k.op = call[w].op /\ k.ctx = call[w].ctx /\ k.alive = f /\ k.stage = call[w].stage
      /\ k.ok = call[w].ok /\ k.ref = call[w].ref /\ k.arg = call[w].arg /\ CallRecord(k)
  <2>1. /\ call[w].ok \in BOOLEAN /\ call[w].stage \in CallStage /\ call[w].out \in Ref \cup {NoRef}
    BY <1>1 DEF CallRecord
  <2>2. k = CallAt(call[w], call[w].stage, call[w].ok, call[w].out, f) BY <1>1, CallUpdates
  <2> HIDE DEF k
  <2> QED BY <1>1, <2>1, <2>2, Restaged, SMT
<1> HIDE DEF k
<1>5. CallOK(k, job[w]) BY <1>1, <1>4 DEF CallOK
<1>6. Answered(w, k) BY <1>1, <1>2, <1>3, <1>4, <1>5 DEF Answered
<1>7. PICK out \in Ref \cup {NoRef} : out = NoRef OBVIOUS
<1>8. guard' = GuardAfter(call[w], f, out) /\ obj' = ObjectAfter(call[w], f)
  BY <1>2, <1>7 DEF ReplyLost
<1> QED BY <1>1, <1>2, <1>6, <1>7, <1>8, AfterReply

----------------------------------------------------------------------------
(* Deletions.                                                              *)

\* The nodes of doomed leave the tree; their thread destroys them afterwards.
LEMMA RemovedFacts ==
  ASSUME RegistryInv, NEW w \in Worker, NEW doomed \in SUBSET Ref, \A r \in doomed : Attached(r),
         RemoveNodes(w, doomed)
  PROVE  /\ RegistryInv' /\ (\A v \in Worker \ {w} : job'[v] = job[v])
         /\ job'[w].out = NoRef /\ job'[w].pc # "attach"
         /\ \A q \in Ref \ doomed : node'[q] = node[q]
<1>1. RegistryInv' BY RemoveNodesInv
<1> DEFINE unowned == {r \in doomed : \A v \in Worker : job[v].src # r}
           lk == unowned # {}
           a == [Idle EXCEPT !.more = unowned, !.locked = lk]
<1>2. Proceed(w, a) BY DEF RemoveNodes
<1>3. \A q \in Ref \ doomed : node'[q] = node[q] BY DEF RemoveNodes
<1>4. lk \in BOOLEAN /\ unowned \in SUBSET Ref OBVIOUS
<1> HIDE DEF unowned, lk
<1>5. a \in Job /\ a.out = NoRef BY <1>4, IdleJobOK DEF Job, Idle
<1> HIDE DEF a
<1>6. CASE a.more = {} /\ job' = [job EXCEPT ![w] =
             [a EXCEPT !.pc = IF a.using # NoEntry THEN "use" ELSE "leave",
                       !.ref = NoRef, !.entry = NoEntry, !.locked = FALSE]]
  <2>1. PICK p \in {"use", "leave"} : p = IF a.using # NoEntry THEN "use" ELSE "leave" OBVIOUS
  <2>2. PICK f : f = FALSE OBVIOUS
  <2>3. job' = [job EXCEPT ![w] = [a EXCEPT !.pc = p, !.ref = NoRef, !.entry = NoEntry, !.locked = f]]
    BY <1>6, <2>1, <2>2
  <2>4. job'[w] = [a EXCEPT !.pc = p, !.ref = NoRef, !.entry = NoEntry, !.locked = f]
        /\ \A v \in Worker \ {w} : job'[v] = job[v]
    BY <2>3 DEF RegistryInv, RegistryType
  <2>5. job'[w].out = a.out /\ job'[w].pc = p BY <1>5, <2>4 DEF Job
  <2> QED BY <1>1, <1>3, <1>5, <2>4, <2>5
<1>7. ASSUME NEW q \in a.more,
             job' = [job EXCEPT ![w] = [a EXCEPT !.pc = "destroy", !.ref = q,
                                                 !.entry = NoEntry, !.more = @ \ {q}]]
      PROVE  /\ \A v \in Worker \ {w} : job'[v] = job[v]
             /\ job'[w].out = NoRef /\ job'[w].pc # "attach"
  <2>1. job'[w] = [a EXCEPT !.pc = "destroy", !.ref = q, !.entry = NoEntry, !.more = @ \ {q}]
        /\ \A v \in Worker \ {w} : job'[v] = job[v]
    BY <1>7 DEF RegistryInv, RegistryType
  <2>2. job'[w].out = a.out /\ job'[w].pc = "destroy" BY <1>5, <2>1 DEF Job
  <2> QED BY <1>5, <2>1, <2>2
<1> QED BY <1>1, <1>2, <1>3, <1>6, <1>7 DEF Proceed

\* The client releases or drops a guard: its node goes, or was gone.
LEMMA KeyReleaseKeeps ==
  ASSUME KmInv, NEW w \in Worker, NEW r \in Ref, NEW op \in {"release", "drop"}, KeyRelease(w, r, op)
  PROVE  KmInv'
<1>1. /\ At(w, "idle") /\ guard[r].state \in {"held", "unsure"} /\ UNCHANGED obj
      /\ RegistryInv /\ Nodes
  BY DEF KeyRelease, Ready, KmInv
<1>2. PICK c \in Context : c = guard[r].ctx /\ obj[c] \in {"open", "dropped"}
  <2>1. guard[r].ctx \in Context BY <1>1 DEF KmInv, KmType, GuardOK, GuardRecord
  <2> QED BY <2>1 DEF KmInv, Objects
<1>3. PICK x \in {"unsure", "dying"} : guard' = [guard EXCEPT ![r].state = x] BY DEF KeyRelease
<1>4. /\ guard'[r] \in GuardRecord /\ guard'[r].state = x /\ guard'[r].ctx = c
      /\ guard' \in [Ref -> GuardRecord] /\ \A q \in Ref \ {r} : guard'[q] = guard[q]
  <2>1. guard \in [Ref -> GuardRecord] /\ guard[r] \in GuardRecord BY DEF KmInv, KmType
  <2>2. PICK g : g = [guard[r] EXCEPT !.state = x] OBVIOUS
  <2>3. g \in GuardRecord /\ g.state = x /\ g.ctx = guard[r].ctx BY <2>1, <2>2 DEF GuardRecord
  <2>4. guard' = [guard EXCEPT ![r] = g] BY <1>3, <2>2
  <2> QED BY <1>2, <2>1, <2>3, <2>4
<1>5. PICK k : /\ call' = [call EXCEPT ![w] = k] /\ NewCall(k, op, c, r, NoKeyAsked, "reply")
               /\ (Attached(r) /\ DeleteKeyDataNode(w, r)) \/ UNCHANGED vars
  <2>1. op \in CallOp /\ "reply" \in CallStage /\ r \in Ref \cup {NoRef} BY DEF CallOp, CallStage
  <2>2. PICK g \in BOOLEAN : g = TRUE OBVIOUS
  <2>3. NewCall([Call(op, c, r, NoKeyAsked, "reply") EXCEPT !.ok = g], op, c, r, NoKeyAsked, "reply")
    BY <2>1, DoneCall
  <2>4. NewCall([Call(op, c, r, NoKeyAsked, "reply") EXCEPT !.stage = "reply"], op, c, r, NoKeyAsked, "reply")
    BY <2>1, StagedCall
  <2>5. \/ /\ Attached(r) /\ DeleteKeyDataNode(w, r)
           /\ call' = [call EXCEPT ![w] = [Call(op, c, r, NoKeyAsked, "reply") EXCEPT !.ok = g]]
        \/ /\ UNCHANGED vars
           /\ call' = [call EXCEPT ![w] = [Call(op, c, r, NoKeyAsked, "reply") EXCEPT !.stage = "reply"]]
    BY <1>2, <2>2 DEF KeyRelease, HandleRelease, Refused
  <2> QED BY <2>3, <2>4, <2>5
<1>6. /\ RegistryInv' /\ (\A v \in Worker \ {w} : job'[v] = job[v])
      /\ job'[w].out = NoRef /\ job'[w].pc # "attach"
      /\ \A q \in Ref \ {r} : node'[q] = node[q]
  <2>1. CASE Attached(r) /\ DeleteKeyDataNode(w, r)
    <3>1. {r} \in SUBSET Ref /\ (\A q \in {r} : Attached(q)) /\ RemoveNodes(w, {r})
      BY <2>1 DEF DeleteKeyDataNode
    <3> QED BY <1>1, <3>1, RemovedFacts
  <2>2. CASE UNCHANGED vars
    <3>1. RegistryInv' /\ job'[w].pc = "idle" /\ job'[w].out = NoRef BY <1>1, <2>2, IdleEffect
    <3> QED BY <2>2, <3>1 DEF vars
  <2> QED BY <1>5, <2>1, <2>2
<1>7. contexts' = contexts BY <1>5 DEF DeleteKeyDataNode, vars
<1>8. /\ call'[w] = k /\ (\A v \in Worker \ {w} : call'[v] = call[v])
      /\ call' = [v \in Worker |-> call'[v]]
  BY <1>5 DEF KmInv, KmType
<1>9. k.op = op /\ k.ctx = c /\ k.stage = "reply" /\ op \notin Makers BY <1>5 DEF NewCall, Makers
<1>10. \A v \in Worker, q \in Ref : Result(call'[v], job'[v], q) =>
          /\ v # w /\ Result(call[v], job[v], q) /\ q # r
  <2> SUFFICES ASSUME NEW v \in Worker, NEW q \in Ref, Result(call'[v], job'[v], q)
               PROVE  v # w /\ Result(call[v], job[v], q) /\ q # r
    OBVIOUS
  <2>1. v # w BY <1>8, <1>9 DEF Result
  <2>2. Result(call[v], job[v], q) BY <1>6, <1>8, <2>1
  <2> QED BY <1>1, <2>1, <2>2 DEF KmInv, Results
<1>11. KmType'
  <2>1. CallOK(k, job'[w]) BY <1>5, <1>9 DEF CallOK, NewCall
  <2>2. \A v \in Worker : CallOK(call'[v], job'[v]) BY <1>6, <1>8, <2>1 DEF KmInv, KmType
  <2>3. \A q \in Ref : GuardOK(q)'
    <3>1. c # NoContext BY <1>2, ConstantsOK
    <3> QED BY <1>4, <3>1 DEF KmInv, KmType, GuardOK
  <2> QED BY <1>1, <1>4, <1>8, <2>2, <2>3 DEF KmInv, KmType
<1>12. Nodes'
  <2>1. ASSUME NEW v \in Worker, job'[v].pc = "attach"
        PROVE  /\ node'[job'[v].ref].ctx = job'[v].ctx /\ guard'[job'[v].ref].state = "none"
    <3>1. v # w /\ job'[v] = job[v] /\ At(v, "attach") BY <1>6, <2>1 DEF At
    <3>2. job[v].ref \in Ref BY <3>1 DEF At, KmInv, RegistryInv, RegistryType, JobOK, Job
    <3>3. node[job[v].ref].ctx = job[v].ctx /\ guard[job[v].ref].state = "none"
      BY <3>1 DEF KmInv, Nodes
    <3> QED BY <1>1, <1>4, <1>6, <3>1, <3>2, <3>3
  <2>2. \A v \in Worker : job'[v].out # NoRef => job'[v].pc = "leave" BY <1>6 DEF KmInv, Nodes, At
  <2> QED BY <2>1, <2>2 DEF Nodes, At
<1>13. Objects'
  <2>1. \A q \in Ref, d \in Context : guard'[q].ctx = d => obj[d] \in {"open", "dropped"}
    BY <1>2, <1>4, SMT DEF KmInv, Objects
  <2>2. \A v \in Worker : call'[v].alive /\ call'[v].op \in Makers => obj[call'[v].ctx] = "open"
    BY <1>8, <1>9 DEF KmInv, Objects
  <2>3. ASSUME NEW v \in Worker, call'[v].op = "open"
        PROVE  /\ obj[call'[v].ctx] = IF call'[v].alive THEN "opening" ELSE "none"
               /\ call'[v].stage # "reply" \/ call'[v].ok => call'[v].ctx \in contexts
               /\ \A u \in Worker \ {v} : call'[u].ctx # call'[v].ctx
    <3>1. v # w /\ call'[v] = call[v] /\ call[v].op = "open" BY <1>8, <1>9, <2>3
    <3>2. /\ obj[call[v].ctx] = IF call[v].alive THEN "opening" ELSE "none"
          /\ call[v].stage # "reply" \/ call[v].ok => call[v].ctx \in contexts
          /\ \A u \in Worker \ {v} : call[u].ctx # call[v].ctx
      BY <3>1 DEF KmInv, Objects
    <3>3. c # call[v].ctx BY <1>2, <3>2
    <3> QED BY <1>8, <1>9, <3>1, <3>2, <3>3
  <2>4. \A v \in Worker : call'[v].op = "close" => v # w /\ call'[v] = call[v]
    BY <1>8, <1>9
  <2>5. \A v \in Worker : call'[v].op = "close" /\ call'[v].alive =>
        /\ obj[call'[v].ctx] = "closing"
        /\ \A u \in Worker \ {v} :
            call'[u].op = "close" /\ call'[u].alive => call'[u].ctx # call'[v].ctx
    BY <2>4, SMT DEF KmInv, Objects
  <2>6. \A d \in Context : obj[d] \in {"open", "dropped"} => d \in contexts BY DEF KmInv, Objects
  <2> QED BY <1>1, <1>7, <2>1, <2>2, <2>3, <2>5, <2>6 DEF Objects
<1>14. Results' BY <1>4, <1>6, <1>8, <1>10, SMT DEF KmInv, Results, Attached
<1>15. GuardedKeyAlive' BY <1>4, <1>6, <1>7 DEF KmInv, GuardedKeyAlive, Attached
<1> QED BY <1>6, <1>11, <1>12, <1>13, <1>14, <1>15 DEF KmInv

\* The node of a context is deleted, with the nodes below it: nobody's guard is on them.
Removes(w, c, k) ==
    /\ obj[c] \in {"opening", "none", "dropped"} /\ \A r \in Ref : guard[r].ctx # c
    /\ CloseContext(w, c) \/ (c \notin contexts /\ At(w, "idle") /\ UNCHANGED vars)
    /\ UNCHANGED guard /\ call' = [call EXCEPT ![w] = k]
    /\ CallRecord(k) /\ k.ctx = c /\ k.stage = "reply"
    /\ obj' \in [Context -> {"none", "opening", "open", "dropped", "closing"}]
    /\ \A d \in Context \ {c} : obj'[d] = obj[d]
    /\ \/ /\ k.op = "open" /\ call[w].op = "open" /\ call[w].ctx = c /\ k.alive = call[w].alive
          /\ ~k.ok /\ obj'[c] = obj[c]
       \/ k.op = "close" /\ obj[c] = "dropped" /\ obj'[c] = "closing"

LEMMA RemovedContext ==
  ASSUME KmInv, NEW w \in Worker, NEW c \in Context, NEW k, Removes(w, c, k)
  PROVE  KmInv'
<1> USE DEF Removes
<1>1. RegistryInv /\ Nodes BY DEF KmInv
<1>2. /\ RegistryInv' /\ (\A v \in Worker \ {w} : job'[v] = job[v])
      /\ job'[w].out = NoRef /\ job'[w].pc # "attach" /\ contexts' = contexts \ {c}
      /\ \A q \in Ref : ~Attached(q) \/ node[q].ctx # c => node'[q] = node[q]
  <2>1. CASE CloseContext(w, c)
    <3> DEFINE doomed == {r \in Ref : Attached(r) /\ node[r].ctx = c}
    <3>1. doomed \in SUBSET Ref /\ \A q \in doomed : Attached(q) OBVIOUS
    <3>2. RemoveNodes(w, doomed) /\ contexts' = contexts \ {c} BY <2>1 DEF CloseContext
    <3>3. \A q \in Ref : ~Attached(q) \/ node[q].ctx # c => q \in Ref \ doomed OBVIOUS
    <3> HIDE DEF doomed
    <3> QED BY <1>1, <3>1, <3>2, <3>3, RemovedFacts
  <2>2. CASE c \notin contexts /\ At(w, "idle") /\ UNCHANGED vars
    <3>1. RegistryInv' /\ job'[w].pc = "idle" /\ job'[w].out = NoRef BY <1>1, <2>2, IdleEffect
    <3> QED BY <2>2, <3>1 DEF vars
  <2> QED BY <2>1, <2>2
<1>3. /\ call'[w] = k /\ (\A v \in Worker \ {w} : call'[v] = call[v])
      /\ call' = [v \in Worker |-> call'[v]]
  BY DEF KmInv, KmType
<1>4. ASSUME NEW v \in Worker, call[v].alive, call[v].op \in Makers
      PROVE  call[v].ctx \in Context /\ obj[call[v].ctx] = "open" /\ call[v].ctx # c
  <2>1. call[v].ctx \in Context BY <1>4 DEF KmInv, KmType, CallOK, Makers
  <2> QED BY <1>4, <2>1 DEF KmInv, Objects
<1>5. \A v \in Worker, q \in Ref : Result(call'[v], job'[v], q) => v # w /\ Result(call[v], job[v], q)
  <2>1. k.op \notin Makers BY DEF Makers
  <2> QED BY <1>2, <1>3, <2>1 DEF Result
<1>6. KmType'
  <2>1. CallOK(k, job'[w]) BY DEF CallOK
  <2>2. \A v \in Worker : CallOK(call'[v], job'[v]) BY <1>2, <1>3, <2>1 DEF KmInv, KmType
  <2>3. \A q \in Ref : GuardOK(q)' BY DEF KmInv, KmType, GuardOK
  <2> QED BY <1>3, <2>2, <2>3 DEF KmInv, KmType
<1>7. Nodes'
  <2>1. ASSUME NEW v \in Worker, job'[v].pc = "attach"
        PROVE  /\ node'[job'[v].ref].ctx = job'[v].ctx /\ guard'[job'[v].ref].state = "none"
    <3>1. v # w /\ job'[v] = job[v] /\ At(v, "attach") BY <1>2, <2>1 DEF At
    <3>2. job[v].ref \in Ref BY <3>1 DEF At, KmInv, RegistryInv, RegistryType, JobOK, Job
    <3>3. job[v].ref \in Mine(job[v]) BY <3>2 DEF Mine
    <3>4. ~Attached(job[v].ref) BY <3>2, <3>3 DEF KmInv, RegistryInv, Owners, Attached
    <3>5. node[job[v].ref].ctx = job[v].ctx /\ guard[job[v].ref].state = "none"
      BY <3>1 DEF KmInv, Nodes
    <3> QED BY <1>2, <3>1, <3>2, <3>4, <3>5
  <2>2. \A v \in Worker : job'[v].out # NoRef => job'[v].pc = "leave" BY <1>2, SMT DEF KmInv, Nodes, At
  <2> QED BY <2>1, <2>2 DEF Nodes, At
<1>8. Objects'
  <2>1. \A q \in Ref, d \in Context : guard[q].ctx = d => obj'[d] \in {"open", "dropped"}
    BY DEF KmInv, Objects
  <2>2. \A d \in Context : obj'[d] \in {"open", "dropped"} => d \in contexts \ {c}
    <3> SUFFICES ASSUME NEW d \in Context, obj'[d] \in {"open", "dropped"} PROVE d \in contexts \ {c}
      OBVIOUS
    <3>1. d # c BY DEF KmInv, Objects
    <3> QED BY <3>1 DEF KmInv, Objects
  <2>3. ASSUME NEW v \in Worker, call'[v].alive, call'[v].op \in Makers PROVE obj'[call'[v].ctx] = "open"
    <3>1. v # w /\ call'[v] = call[v] BY <1>3, <2>3 DEF Makers
    <3> QED BY <1>4, <2>3, <3>1, SMT
  <2>4. ASSUME NEW v \in Worker, call'[v].op = "open"
        PROVE  /\ obj'[call'[v].ctx] = IF call'[v].alive THEN "opening" ELSE "none"
               /\ call'[v].stage # "reply" \/ call'[v].ok => call'[v].ctx \in contexts \ {c}
               /\ \A u \in Worker \ {v} : call'[u].ctx # call'[v].ctx
    <3>1. CASE v = w
      <4>1. /\ k.op = "open" /\ call[w].op = "open" /\ call[w].ctx = c /\ k.alive = call[w].alive
            /\ ~k.ok /\ obj'[c] = obj[c]
        BY <1>3, <2>4, <3>1
      <4>2. /\ obj[c] = IF call[w].alive THEN "opening" ELSE "none"
            /\ \A u \in Worker \ {w} : call[u].ctx # c
        BY <4>1, SMT DEF KmInv, Objects
      <4> QED BY <1>3, <3>1, <4>1, <4>2
    <3>2. CASE v # w
      <4>1. call'[v] = call[v] /\ call[v].op = "open" BY <1>3, <2>4, <3>2
      <4>2. call[v].ctx \in Context BY <4>1 DEF KmInv, KmType, CallOK
      <4>3. /\ obj[call[v].ctx] = IF call[v].alive THEN "opening" ELSE "none"
            /\ call[v].stage # "reply" \/ call[v].ok => call[v].ctx \in contexts
            /\ \A u \in Worker \ {v} : call[u].ctx # call[v].ctx
        BY <4>1 DEF KmInv, Objects
      <4>4. call[v].ctx # c BY <3>2, <4>3
      <4> QED BY <1>3, <3>2, <4>1, <4>2, <4>3, <4>4
    <3> QED BY <3>1, <3>2
  <2>5. ASSUME NEW v \in Worker, call'[v].op = "close", call'[v].alive
        PROVE  /\ obj'[call'[v].ctx] = "closing"
               /\ \A u \in Worker \ {v} :
                    call'[u].op = "close" /\ call'[u].alive => call'[u].ctx # call'[v].ctx
    <3>1. ASSUME NEW u \in Worker \ {w}, call[u].op = "close", call[u].alive
          PROVE  call[u].ctx \in Context /\ obj[call[u].ctx] = "closing" /\ call[u].ctx # c
      BY <3>1 DEF KmInv, KmType, CallOK, Objects
    <3>2. CASE v = w BY <1>3, <2>5, <3>1, <3>2
    <3>3. CASE v # w
      <4>1. call'[v] = call[v] /\ call[v].op = "close" /\ call[v].alive BY <1>3, <2>5, <3>3
      <4>2. \A u \in Worker \ {v} : call[u].op = "close" /\ call[u].alive => call[u].ctx # call[v].ctx
        BY <4>1 DEF KmInv, Objects
      <4> QED BY <1>3, <3>1, <3>3, <4>1, <4>2, SMT
    <3> QED BY <3>2, <3>3
  <2>6. guard' = guard /\ contexts' = contexts \ {c} BY <1>2
  <2>7. \A d \in Context : obj'[d] \in {"open", "dropped"} => d \in contexts' BY <2>2, <2>6
  <2>8. ASSUME NEW v \in Worker, call'[v].op = "open"
        PROVE  /\ obj'[call'[v].ctx] = IF call'[v].alive THEN "opening" ELSE "none"
               /\ call'[v].stage # "reply" \/ call'[v].ok => call'[v].ctx \in contexts'
               /\ \A u \in Worker \ {v} : call'[u].ctx # call'[v].ctx
    BY <2>4, <2>6, <2>8
  <2>9. \A q \in Ref, d \in Context : guard'[q].ctx = d => obj'[d] \in {"open", "dropped"}
    BY <2>1, <2>6
  <2> QED BY <2>3, <2>5, <2>7, <2>8, <2>9 DEF Objects
<1>9. Results'
  <2> SUFFICES ASSUME NEW v \in Worker, NEW r \in Ref, Result(call'[v], job'[v], r)
               PROVE  /\ Attached(r)' /\ node'[r].ctx = call'[v].ctx /\ guard[r].state = "none"
                      /\ \A u \in Worker \ {v} : ~Result(call'[u], job'[u], r)
    BY SMT DEF Results, Result
  <2>1. v # w /\ Result(call[v], job[v], r) BY <1>5
  <2>2. /\ Attached(r) /\ node[r].ctx = call[v].ctx /\ guard[r].state = "none"
        /\ \A u \in Worker \ {v} : ~Result(call[u], job[u], r)
    BY <2>1 DEF KmInv, Results
  <2>3. call[v].ctx # c BY <1>4, <2>1 DEF Result
  <2> QED BY <1>2, <1>3, <1>5, <2>1, <2>2, <2>3 DEF Attached
<1>10. GuardedKeyAlive' BY <1>2 DEF KmInv, GuardedKeyAlive, Attached
<1> QED BY <1>2, <1>6, <1>7, <1>8, <1>9, <1>10 DEF KmInv

\* A context whose key could not be bound is deleted.
LEMMA CleanupKeeps ==
  ASSUME KmInv, NEW w \in Worker, CleanupContext(w)
  PROVE  KmInv'
<1>1. /\ call[w].stage = "cleanup" /\ At(w, "idle") /\ CallOK(call[w], job[w]) /\ CallRecord(call[w])
      /\ UNCHANGED <<guard, obj>>
  BY DEF CleanupContext, DeleteContext, Stage, KmInv, KmType, CallOK
<1>2. call[w].op = "open" /\ ~call[w].ok /\ call[w].ctx \in Context BY <1>1 DEF CallOK
<1>3. PICK s \in CallStage : s = "reply" BY DEF CallStage
<1> DEFINE k == [call[w] EXCEPT !.stage = s]
<1>4. call' = [call EXCEPT ![w] = k] BY <1>3 DEF CleanupContext, DeleteContext
<1>5. /\ k.op = call[w].op /\ k.ctx = call[w].ctx /\ k.alive = call[w].alive /\ k.stage = s
      /\ k.ok = call[w].ok /\ CallRecord(k)
  <2>1. /\ CallRecord(call[w]) /\ call[w].ok \in BOOLEAN /\ call[w].alive \in BOOLEAN
        /\ call[w].out \in Ref \cup {NoRef} /\ s \in CallStage
    BY <1>1 DEF CallRecord
  <2>2. k = CallAt(call[w], s, call[w].ok, call[w].out, call[w].alive) BY <2>1, CallUpdates
  <2> HIDE DEF k
  <2> QED BY <2>1, <2>2, Restaged, SMT
<1> HIDE DEF k
<1>6. PICK c \in Context : c = call[w].ctx BY <1>2
<1>7. obj[c] \in {"opening", "none", "dropped"} /\ \A r \in Ref : guard[r].ctx # c
  BY <1>2, <1>6 DEF KmInv, Objects
<1>8. CloseContext(w, c) \/ (c \notin contexts /\ At(w, "idle") /\ UNCHANGED vars)
  BY <1>1, <1>6 DEF CleanupContext, DeleteContext
<1>9. /\ obj' \in [Context -> {"none", "opening", "open", "dropped", "closing"}]
      /\ \A d \in Context \ {c} : obj'[d] = obj[d]
  BY <1>1 DEF KmInv, KmType
<1>10. UNCHANGED guard BY <1>1
<1>11. /\ k.op = "open" /\ call[w].op = "open" /\ call[w].ctx = c /\ k.alive = call[w].alive
       /\ ~k.ok /\ obj'[c] = obj[c]
  BY <1>1, <1>2, <1>5, <1>6
<1>12. CallRecord(k) /\ k.ctx = c /\ k.stage = "reply" BY <1>3, <1>5, <1>6
<1>13. Removes(w, c, k) BY <1>4, <1>7, <1>8, <1>9, <1>10, <1>11, <1>12 DEF Removes
<1> QED BY <1>13, RemovedContext

\* The last owner of the callback closes the context.
LEMMA CloseDroppedKeeps ==
  ASSUME KmInv, NEW w \in Worker, NEW c \in Context, CloseDropped(w, c)
  PROVE  KmInv'
<1>1. /\ At(w, "idle") /\ obj[c] = "dropped" /\ (\A r \in Ref : guard[r].ctx # c) /\ UNCHANGED guard
      /\ obj' = [obj EXCEPT ![c] = "closing"]
  BY DEF CloseDropped, CallbackGone, DeleteContext, Ready
<1>2. /\ obj' \in [Context -> {"none", "opening", "open", "dropped", "closing"}]
      /\ \A d \in Context \ {c} : obj'[d] = obj[d]
  BY <1>1 DEF KmInv, KmType
<1>3. PICK g \in BOOLEAN : g = TRUE OBVIOUS
<1>4. PICK k : k = [Call("close", c, NoRef, NoKeyAsked, "reply") EXCEPT !.ok = g] OBVIOUS
<1>5. call' = [call EXCEPT ![w] = k] BY <1>3, <1>4 DEF CloseDropped, DeleteContext
<1>6. "close" \in CallOp /\ "reply" \in CallStage /\ NoRef \in Ref \cup {NoRef} BY DEF CallOp, CallStage
<1>7. NewCall(k, "close", c, NoRef, NoKeyAsked, "reply") BY <1>4, <1>6, DoneCall
<1>8. CallRecord(k) /\ k.ctx = c /\ k.stage = "reply" BY <1>7 DEF NewCall
<1>9. CloseContext(w, c) \/ (c \notin contexts /\ At(w, "idle") /\ UNCHANGED vars)
  BY <1>1 DEF CloseDropped, DeleteContext
<1>10. obj[c] \in {"opening", "none", "dropped"} /\ (\A r \in Ref : guard[r].ctx # c) /\ UNCHANGED guard
  BY <1>1
<1>11. k.op = "close" /\ obj[c] = "dropped" /\ obj'[c] = "closing" BY <1>1, <1>7 DEF NewCall, KmInv, KmType
<1>12. Removes(w, c, k) BY <1>2, <1>5, <1>8, <1>9, <1>10, <1>11 DEF Removes
<1> QED BY <1>12, RemovedContext

\* The application destroys a context object.
LEMMA DropContextKeeps ==
  ASSUME KmInv, NEW c \in Context, DropContext(c)
  PROVE  KmInv'
<1>1. /\ UNCHANGED <<vars, guard, call>> /\ obj[c] = "open" /\ obj' = [obj EXCEPT ![c] = "dropped"]
      /\ \A w \in Worker : call[w].ctx = c /\ call[w].alive => call[w].op \in {"release", "drop"}
  BY DEF DropContext
<1>2. UNCHANGED <<keys, slotToId, nextId, refCount, node, contexts, job>> BY <1>1 DEF vars
<1>3. RegistryInv' BY <1>2, RegistryUntouched DEF KmInv
<1>4. obj'[c] = "dropped" /\ \A d \in Context \ {c} : obj'[d] = obj[d] BY <1>1 DEF KmInv, KmType
<1>5. KmType'
  <2>1. obj' \in [Context -> {"none", "opening", "open", "dropped", "closing"}] BY <1>1 DEF KmInv, KmType
  <2>2. \A q \in Ref : GuardOK(q)' BY <1>1 DEF KmInv, KmType, GuardOK
  <2>3. \A v \in Worker : CallOK(call'[v], job'[v]) BY <1>1, <1>2 DEF KmInv, KmType
  <2> QED BY <1>1, <2>1, <2>2, <2>3 DEF KmInv, KmType
<1>6. Nodes' BY <1>1, <1>2 DEF KmInv, Nodes, At
<1>7. Objects'
  <2>1. \A v \in Worker : call[v].op # "none" => call[v].ctx \in Context BY DEF KmInv, KmType, CallOK
  <2>2. \A q \in Ref, d \in Context : guard[q].ctx = d => obj'[d] \in {"open", "dropped"}
    BY <1>4 DEF KmInv, Objects
  <2>3. \A d \in Context : obj'[d] \in {"open", "dropped"} => d \in contexts
    BY <1>1, <1>4 DEF KmInv, Objects
  <2>4. \A v \in Worker : call[v].alive /\ call[v].op \in Makers => obj'[call[v].ctx] = "open"
    <3> SUFFICES ASSUME NEW v \in Worker, call[v].alive, call[v].op \in Makers
                 PROVE  obj'[call[v].ctx] = "open"
      OBVIOUS
    <3>1. call[v].op \notin {"release", "drop", "none"} BY DEF Makers
    <3>2. call[v].ctx # c /\ call[v].ctx \in Context BY <1>1, <2>1, <3>1
    <3> QED BY <1>4, <3>2 DEF KmInv, Objects
  <2>5. ASSUME NEW v \in Worker, call[v].op = "open"
        PROVE  obj'[call[v].ctx] = obj[call[v].ctx]
    <3>1. call[v].ctx \in Context /\ obj[call[v].ctx] \in {"opening", "none"}
      BY <2>1, <2>5 DEF KmInv, Objects
    <3> QED BY <1>1, <1>4, <3>1
  <2>6. ASSUME NEW v \in Worker, call[v].op = "close", call[v].alive
        PROVE  obj'[call[v].ctx] = obj[call[v].ctx]
    <3>1. call[v].ctx \in Context /\ obj[call[v].ctx] = "closing"
      BY <2>1, <2>6 DEF KmInv, Objects
    <3> QED BY <1>1, <1>4, <3>1
  <2> QED BY <1>1, <1>2, <2>2, <2>3, <2>4, <2>5, <2>6, SMTT(60) DEF KmInv, Objects
<1>8. Results' BY <1>1, <1>2, SMT DEF KmInv, Results, Attached, Result
<1>9. GuardedKeyAlive' BY <1>1, <1>2 DEF KmInv, GuardedKeyAlive, Attached
<1> QED BY <1>3, <1>5, <1>6, <1>7, <1>8, <1>9 DEF KmInv

----------------------------------------------------------------------------
(* New contexts.                                                           *)

\* A step outside of calls, nodes and contexts.
LEMMA Untouched ==
  ASSUME KmInv, RegistryInv', UNCHANGED <<node, job, contexts, guard, obj, call>>
  PROVE  KmInv'
<1>1. KmType'
  <2>1. \A v \in Worker : CallOK(call'[v], job'[v]) BY DEF KmInv, KmType
  <2>2. \A q \in Ref : GuardOK(q)' BY DEF KmInv, KmType, GuardOK
  <2> QED BY <2>1, <2>2 DEF KmInv, KmType
<1>2. Nodes' BY DEF KmInv, Nodes, At
<1>3. Objects' BY DEF KmInv, Objects
<1>4. Results' BY SMT DEF KmInv, Results, Attached, Result
<1>5. GuardedKeyAlive' BY DEF KmInv, GuardedKeyAlive, Attached
<1> QED BY <1>1, <1>2, <1>3, <1>4, <1>5 DEF KmInv

\* A context is stored and its call opened, or no provider is found.
LEMMA CreateContextKeeps ==
  ASSUME KmInv, NEW w \in Worker, NEW c \in Context, NEW ask, NEW key, NEW arg,
         CreateContext(w, c, ask, key, arg),
         key # <<>> /\ arg.slot = "" => arg.ref \in Ref
  PROVE  KmInv'
<1>1. /\ At(w, "idle") /\ obj[c] = "none" /\ c \notin contexts /\ (\A v \in Worker : call[v].ctx # c)
      /\ UNCHANGED <<keys, slotToId, nextId, refCount, node, job, guard>>
  BY DEF CreateContext, Opens, Ready
<1>2. RegistryInv' BY <1>1, RegistryUntouched DEF KmInv
<1>3. CASE UNCHANGED <<contexts, obj, call>>
  BY <1>1, <1>2, <1>3, Untouched
<1>4. ASSUME NEW s \in {"init", "bind"}, s = "bind" => key # <<>>,
             contexts' = contexts \cup {c}, obj' = [obj EXCEPT ![c] = "opening"],
             call' = [call EXCEPT ![w] = Call("open", c, NoRef, arg, s)]
      PROVE  KmInv'
  <2>1. PICK k : k = Call("open", c, NoRef, arg, s) OBVIOUS
  <2>2. "open" \in CallOp /\ s \in CallStage /\ NoRef \in Ref \cup {NoRef} BY DEF CallOp, CallStage
  <2>3. NewCall(k, "open", c, NoRef, arg, s) /\ ~k.ok BY <2>1, <2>2, PlainCall
  <2>4. /\ call'[w] = k /\ (\A v \in Worker \ {w} : call'[v] = call[v])
        /\ call' = [v \in Worker |-> call'[v]]
    BY <1>4, <2>1 DEF KmInv, KmType
  <2>5. obj'[c] = "opening" /\ \A d \in Context \ {c} : obj'[d] = obj[d] BY <1>4 DEF KmInv, KmType
  <2>6. \A v \in Worker, r \in Ref : Result(call'[v], job'[v], r) => v # w /\ Result(call[v], job[v], r)
    <3>1. k.op \notin Makers BY <2>3 DEF NewCall, Makers
    <3> QED BY <1>1, <2>4, <3>1 DEF Result
  <2>7. KmType'
    <3>1. CallOK(k, job'[w]) BY <1>4, <2>3 DEF CallOK, NewCall
    <3>2. \A v \in Worker : CallOK(call'[v], job'[v]) BY <1>1, <2>4, <3>1 DEF KmInv, KmType
    <3>3. obj' \in [Context -> {"none", "opening", "open", "dropped", "closing"}] BY <1>4 DEF KmInv, KmType
    <3>4. \A q \in Ref : GuardOK(q)' BY <1>1 DEF KmInv, KmType, GuardOK
    <3> QED BY <1>1, <2>4, <3>2, <3>3, <3>4 DEF KmInv, KmType
  <2>8. Nodes' BY <1>1 DEF KmInv, Nodes, At
  <2>9. Objects'
    <3>1. \A v \in Worker : call[v].op # "none" => call[v].ctx \in Context BY DEF KmInv, KmType, CallOK
    <3>2. \A q \in Ref, d \in Context : guard[q].ctx = d => obj'[d] \in {"open", "dropped"}
      BY <1>1, <2>5 DEF KmInv, Objects
    <3>3. \A d \in Context : obj'[d] \in {"open", "dropped"} => d \in contexts'
      BY <1>4, <2>5 DEF KmInv, Objects
    <3>4. ASSUME NEW v \in Worker, call'[v].alive, call'[v].op \in Makers
          PROVE  obj'[call'[v].ctx] = "open"
      <4>1. v # w /\ call'[v] = call[v] /\ call[v].op # "none"
        BY <2>3, <2>4, <3>4 DEF NewCall, Makers
      <4>2. call[v].ctx \in Context /\ call[v].ctx # c BY <1>1, <3>1, <4>1
      <4>3. obj[call[v].ctx] = "open" BY <3>4, <4>1 DEF KmInv, Objects
      <4> QED BY <2>5, <4>1, <4>2, <4>3
    <3>5. ASSUME NEW v \in Worker, call'[v].op = "open"
          PROVE  /\ obj'[call'[v].ctx] = IF call'[v].alive THEN "opening" ELSE "none"
                 /\ call'[v].stage # "reply" \/ call'[v].ok => call'[v].ctx \in contexts'
                 /\ \A u \in Worker \ {v} : call'[u].ctx # call'[v].ctx
      <4>1. CASE v = w
        <5>1. call'[v] = k /\ k.ctx = c /\ k.alive BY <2>3, <2>4, <4>1 DEF NewCall
        <5>2. \A u \in Worker \ {v} : call'[u].ctx # c BY <1>1, <2>4, <4>1
        <5>3. c \in contexts' BY <1>4
        <5> QED BY <2>5, <5>1, <5>2, <5>3
      <4>2. CASE v # w
        <5>1. call'[v] = call[v] /\ call[v].op = "open" /\ call[v].ctx \in Context /\ call[v].ctx # c
          BY <1>1, <2>4, <3>1, <3>5, <4>2
        <5>2. /\ obj[call[v].ctx] = IF call[v].alive THEN "opening" ELSE "none"
              /\ call[v].stage # "reply" \/ call[v].ok => call[v].ctx \in contexts
              /\ \A u \in Worker \ {v} : call[u].ctx # call[v].ctx
          BY <5>1 DEF KmInv, Objects
        <5>3. k.ctx = c BY <2>3 DEF NewCall
        <5>4. obj'[call'[v].ctx] = IF call'[v].alive THEN "opening" ELSE "none"
          BY <2>5, <5>1, <5>2
        <5>5. call'[v].stage # "reply" \/ call'[v].ok => call'[v].ctx \in contexts'
          <6>1. contexts \subseteq contexts' BY <1>4
          <6> QED BY <5>1, <5>2, <6>1
        <5>6. ASSUME NEW u \in Worker \ {v} PROVE call'[u].ctx # call'[v].ctx
          <6>1. CASE u = w BY <2>4, <5>1, <5>3, <6>1
          <6>2. CASE u # w BY <2>4, <5>1, <5>2, <6>2
          <6> QED BY <6>1, <6>2
        <5> QED BY <5>4, <5>5, <5>6
      <4> QED BY <4>1, <4>2
    <3>6. ASSUME NEW v \in Worker, call'[v].op = "close", call'[v].alive
          PROVE  /\ obj'[call'[v].ctx] = "closing"
                 /\ \A u \in Worker \ {v} :
                      call'[u].op = "close" /\ call'[u].alive => call'[u].ctx # call'[v].ctx
      <4>1. \A u \in Worker : call'[u].op = "close" => u # w /\ call'[u] = call[u]
        BY <2>3, <2>4 DEF NewCall
      <4>2. call[v].ctx \in Context /\ call[v].ctx # c BY <1>1, <3>1, <3>6, <4>1
      <4>3. obj[call[v].ctx] = "closing" /\ \A u \in Worker \ {v} :
               call[u].op = "close" /\ call[u].alive => call[u].ctx # call[v].ctx
        BY <3>6, <4>1 DEF KmInv, Objects
      <4> QED BY <2>5, <3>6, <4>1, <4>2, <4>3
    <3> QED BY <1>1, <3>2, <3>3, <3>4, <3>5, <3>6 DEF Objects
  <2>10. Results'
    <3> SUFFICES ASSUME NEW v \in Worker, NEW r \in Ref, Result(call'[v], job'[v], r)
                 PROVE  /\ Attached(r)' /\ node'[r].ctx = call'[v].ctx /\ guard'[r].state = "none"
                        /\ \A u \in Worker \ {v} : ~Result(call'[u], job'[u], r)
      BY DEF Results, Result
    <3>1. v # w /\ Result(call[v], job[v], r) BY <2>6
    <3>2. /\ Attached(r) /\ node[r].ctx = call[v].ctx /\ guard[r].state = "none"
          /\ \A u \in Worker \ {v} : ~Result(call[u], job[u], r)
      BY <3>1 DEF KmInv, Results
    <3> QED BY <1>1, <2>4, <2>6, <3>1, <3>2 DEF Attached
  <2>11. GuardedKeyAlive' BY <1>1, <1>4 DEF KmInv, GuardedKeyAlive, Attached
  <2> QED BY <1>2, <2>7, <2>8, <2>9, <2>10, <2>11 DEF KmInv
<1>5. \/ UNCHANGED <<contexts, obj, call>>
      \/ \E s \in {"init", "bind"} :
            /\ s = "bind" => key # <<>>
            /\ contexts' = contexts \cup {c} /\ obj' = [obj EXCEPT ![c] = "opening"]
            /\ call' = [call EXCEPT ![w] = Call("open", c, NoRef, arg, s)]
  BY DEF CreateContext
<1> QED BY <1>3, <1>4, <1>5

\* With or without a key.
LEMMA OpenContextKeeps ==
  ASSUME KmInv, Served, NEW w \in Worker, NEW c \in Context,
         CreateKeyContext(w, c) \/ CreateOperationContext(w, c)
  PROVE  KmInv'
<1>1. CASE CreateKeyContext(w, c)
  BY <1>1, CreateContextKeeps DEF CreateKeyContext
<1>2. ASSUME NEW b, NEW r \in Ref, NEW key, NEW need,
             CreateContext(w, c, b, key, [need |-> need, ref |-> r, slot |-> ""])
      PROVE  KmInv'
  <2>1. PICK arg : arg = [need |-> need, ref |-> r, slot |-> ""] OBVIOUS
  <2>2. arg.ref \in Ref BY <2>1
  <2> QED BY <1>2, <2>1, <2>2, CreateContextKeeps
<1>3. ASSUME NEW b, NEW s \in Slots, NEW key, NEW need,
             CreateContext(w, c, b, key, [need |-> need, ref |-> NoRef, slot |-> s.name])
      PROVE  KmInv'
  <2>1. PICK arg : arg = [need |-> need, ref |-> NoRef, slot |-> s.name] OBVIOUS
  <2>2. s.name # "" BY DEF Served
  <2>3. arg.slot # "" BY <2>1, <2>2
  <2> QED BY <1>3, <2>1, <2>3, CreateContextKeeps
<1>4. \A id : ResolveKeySlot(c, id) \subseteq Slots
  BY DEF ResolveKeySlot, ResolveAppResource, ResolveSlot, Slots
<1> QED BY <1>1, <1>2, <1>3, <1>4 DEF CreateOperationContext

----------------------------------------------------------------------------
(* The theorems.                                                           *)

LEMMA KmInitInv ==
  ASSUME KmInit
  PROVE  KmInv
<1>1. RegistryInv BY InitInv DEF KmInit
<1>2. /\ job = [w \in Worker |-> Idle] /\ call = [w \in Worker |-> NoCall] /\ contexts = {}
      /\ guard = [r \in Ref |-> NoGuard] /\ obj = [c \in Context |-> "none"]
  BY DEF KmInit, NoKeys
<1>3. \A w \in Worker : job[w].pc = "idle" /\ job[w].out = NoRef BY <1>2 DEF Idle
<1>4. \A w \in Worker : CallOK(call[w], job[w]) /\ call[w].op = "none" /\ ~call[w].alive
  BY <1>2, <1>3, NoCallOK
<1>5. NoGuard \in GuardRecord /\ NoGuard.state = "none" /\ NoGuard.ctx = NoContext BY DEF NoGuard, GuardRecord
<1>6. \A r \in Ref : guard[r] = NoGuard BY <1>2
<1>7. KmType BY <1>2, <1>4, <1>5, <1>6 DEF KmType, GuardOK
<1>8. Nodes BY <1>3 DEF Nodes, At
<1>9. Objects BY <1>2, <1>4, <1>5, <1>6, ConstantsOK DEF Objects, Makers
<1>10. Results BY <1>4 DEF Results, Result
<1>11. GuardedKeyAlive BY <1>5, <1>6 DEF GuardedKeyAlive
<1> QED BY <1>1, <1>7, <1>8, <1>9, <1>10, <1>11 DEF KmInv

LEMMA InitServed ==
  ASSUME KmInit
  PROVE  Served
<1>1. /\ registered = {} /\ ready = {} /\ byType = {} /\ app \in DOMAIN Scenario /\ world \in DOMAIN Use.worlds
      /\ phase = "down" /\ slots = [slots |-> <<>>, maps |-> <<>>]
      /\ ctx = [c \in Context |-> NoContextNode] /\ contexts = {}
  BY DEF KmInit
<1>2. Slots = {}
  <2>1. slots.slots = <<>> /\ DOMAIN <<>> = {} BY <1>1, SMT
  <2> QED BY <2>1 DEF Slots, Range
<1>3. Nodelike(NoContextNode) BY SMT DEF Nodelike, NoContextNode
<1>4. ctx = [c \in Context |-> ctx[c]] /\ \A c \in Context : Nodelike(ctx[c]) BY <1>1, <1>3
<1> QED BY <1>1, <1>2, <1>4 DEF Served

\* Every step keeps the invariant.
LEMMA KmNextInv ==
  ASSUME KmInv, Served, [KmNext]_allVars
  PROVE  KmInv'
<1>1. CASE Start \/ UNCHANGED allVars
  <2>1. UNCHANGED <<vars, guard, obj, call>>
    BY <1>1 DEF Start, ReadConfig, StartProviders, InitializeProviders, CreateKeyManagement, Started,
                allVars, kmVars
  <2>2. UNCHANGED <<keys, slotToId, nextId, refCount, node, contexts, job>> BY <2>1 DEF vars
  <2>3. RegistryInv' BY <2>2, RegistryUntouched DEF KmInv
  <2> QED BY <2>1, <2>2, <2>3, Untouched
<1>2. ASSUME NEW w \in Worker, ClientCall(w) PROVE KmInv'
  <2>1. ASSUME NEW c \in Context, KeyGenerate(w, c) PROVE KmInv'
    BY <2>1, RegisterOutputKeeps DEF KeyGenerate
  <2>2. ASSUME NEW c \in Context, KeyImport(w, c) PROVE KmInv'
    BY <2>2, RegisterOutputKeeps DEF KeyImport
  <2> QED BY <1>2, <2>1, <2>2, OpenContextKeeps, KeyLoadKeeps, CloseDroppedKeeps, KeyOperationKeeps,
             KeyReleaseKeeps DEF ClientCall
<1>3. ASSUME NEW w \in Worker, Serve(w) PROVE KmInv'
  BY <1>3, BindKeeps, InitializeKeeps, CleanupKeeps, UseKeyKeeps, JobStepKeeps, JobDoneKeeps, ReplyKeeps,
     ReplyLostKeeps DEF Serve
<1>4. ASSUME NEW c \in Context, DropContext(c) PROVE KmInv' BY <1>4, DropContextKeeps
<1> QED BY <1>1, <1>2, <1>3, <1>4 DEF KmNext

LEMMA KmInvariance == KmSpec => [](KmInv /\ Served)
<1>1. KmInit => KmInv BY KmInitInv
<1>2. KmInit => Served
  BY InitServed
<1>3. KmInv /\ Served /\ [KmNext]_allVars => KmInv' BY KmNextInv
<1>4. KmInv /\ Served /\ [KmNext]_allVars => Served' BY NextServed DEF KmInv
<1> QED BY <1>1, <1>2, <1>3, <1>4, PTL DEF KmSpec

\* key_management_context_impl.cpp: a guard owns its key, for any number of
\* threads, contexts, keys and lost replies.  From a key's creation until its
\* guard first asks for its release, the key's node is stored in the daemon,
\* below the context the guard belongs to, and this context is open.
THEOREM GuardsKeepKeys == KmSpec => []GuardedKeyAlive
<1>1. KmInv => GuardedKeyAlive BY DEF KmInv
<1> QED BY <1>1, KmInvariance, PTL

\* The counts of the key registry are those of the references also with the
\* daemon's requests, its clean-up after a failed request and lost replies.
THEOREM ServedReferencesCounted == KmSpec => []ReferencesExact
<1>1. KmInv => RegistryInv BY DEF KmInv
<1>2. RegistryInv => ReferencesExact BY RegistryReferences
<1> QED BY <1>1, <1>2, KmInvariance, PTL

\* A key that an operation of the daemon uses has an owner, whichever client
\* releases it or closes its context at the same time.
THEOREM ServedKeysOwned == KmSpec => []KeyInUseOwned
<1>1. KmInv => RegistryInv BY DEF KmInv
<1>2. RegistryInv => KeyInUseOwned BY RegistryOwned
<1> QED BY <1>1, <1>2, KmInvariance, PTL

----------------------------------------------------------------------------
(* The keys below a context are keys of its provider: the invariant, and   *)
(* the operations of the registry, whoever calls them.                     *)

\* The inductive invariant.
Made(k) == k = [handle |-> k.handle, asked |-> k.asked, pub |-> k.pub, slot |-> k.slot, out |-> k.out]

ProviderOf(e) == mat[e].handle.provider

\* What a slot stands for is a key of the slot's provider.
SlotBound ==
    \A s \in Slot : slotToId[s] < nextId /\ (FindBySlot(s) # NoEntry => ProviderOf(FindBySlot(s)) = s[1])

NodeBound ==
    \A r \in Ref : Attached(r) =>
        node[r].ctx \in contexts /\ ProviderOf(node[r].entry) = ctx[node[r].ctx].provider

\* A request works for the context of its call, and the key it has got, from a
\* slot or from a factory, is one of the context's provider, unless the context
\* is gone by now.
Loading == {"found", "load", "recheck", "register", "lost", "winner"}
Working(j) == j.pc \in Loading \cup {"create", "attach", "acquired", "use"} \/ j.using # NoEntry
WorkerBound(w) ==
    /\ Working(job[w]) => call[w].stage \in {"run", "bound"} /\ job[w].ctx = call[w].ctx
    /\ job[w].using # NoEntry => job[w].pc \in {"acquired", "use", "destroy", "unregister"}
    /\ job[w].pc \in Loading =>
          /\ job[w].slot[1] \in {"openssl", "pkcs11"}
          /\ job[w].ctx \in contexts => job[w].slot[1] = ctx[job[w].ctx].provider
    /\ job[w].pc \in {"found", "register"} => ProviderOf(job[w].entry) = job[w].slot[1]
    /\ job[w].pc = "winner" =>
          job[w].rid < nextId /\ (keys[job[w].rid] # NoEntry => ProviderOf(keys[job[w].rid]) = job[w].slot[1])
    /\ job[w].pc = "create" /\ job[w].ctx \in contexts =>
          ProviderOf(job[w].entry) = ctx[job[w].ctx].provider
    /\ job[w].pc = "attach" /\ job[w].ctx \in contexts =>
          ProviderOf(node[job[w].ref].entry) = ctx[job[w].ctx].provider

Materials == mat = [e \in Entry |-> mat[e]] /\ \A e \in Entry : Made(mat[e])

Bindings == Materials /\ SlotBound /\ NodeBound /\ \A w \in Worker : WorkerBound(w)

\* What the steps that create no context leave as it was.
HandlesKept == \A e \in Entry : FreshEntry(e) \/ FreshEntry(e)' \/ ProviderOf(e)' = ProviderOf(e)
ContextsKept == \A c \in contexts' : c \in contexts /\ ctx'[c].provider = ctx[c].provider
KeysKept == nextId <= nextId' /\ \A i \in RegId : i < nextId => keys'[i] \in {keys[i], NoEntry}
NodesKept == \A r \in Ref : node[r] # NoRef /\ node'[r] # NoRef => node'[r].entry = node[r].entry
Kept == HandlesKept /\ ContextsKept /\ KeysKept /\ NodesKept

\* A thread that does nothing.
LEMMA OthersBound ==
  ASSUME RegistryInv, RegistryInv', Bindings, Kept, NEW v \in Worker, job'[v] = job[v],
         call'[v].stage = call[v].stage, call'[v].ctx = call[v].ctx
  PROVE  WorkerBound(v)'
<1> DEFINE j == job[v]
<1>1. WorkerBound(v) /\ JobOK(j) /\ job'[v] = j BY DEF Bindings, RegistryInv, RegistryType
<1>2. \A c \in contexts' : c \in contexts /\ ctx'[c].provider = ctx[c].provider BY DEF Kept, ContextsKept
<1>3. ASSUME j.entry \in Entry PROVE ProviderOf(j.entry)' = ProviderOf(j.entry)
  <2>1. ~FreshEntry(j.entry) /\ ~FreshEntry(j.entry)' BY <1>1 DEF FreshEntry
  <2> QED BY <1>3, <2>1 DEF Kept, HandlesKept
<1>4. ASSUME j.pc = "winner" PROVE j.rid < nextId' /\ keys'[j.rid] \in {keys[j.rid], NoEntry} /\ j.rid \in RegId
  <2>1. j.rid \in RegId /\ j.rid < nextId BY <1>1, <1>4 DEF JobOK, WorkerBound
  <2>2. nextId \in Nat /\ nextId' \in Nat /\ nextId <= nextId' BY SMT DEF RegistryInv, RegistryType, Kept, KeysKept
  <2>3. j.rid < nextId' BY <2>1, <2>2, SMT DEF RegId
  <2> QED BY <2>1, <2>3 DEF Kept, KeysKept
<1>5. ASSUME j.pc = "winner", keys'[j.rid] # NoEntry
      PROVE  keys'[j.rid] = keys[j.rid] /\ ProviderOf(keys[j.rid])' = ProviderOf(keys[j.rid])
  <2>1. keys'[j.rid] = keys[j.rid] /\ j.rid \in RegId BY <1>4, <1>5
  <2>2. keys[j.rid] \in Entry BY <1>5, <2>1 DEF RegistryInv, RegistryType
  <2>3. ~FreshEntry(keys[j.rid]) BY <2>1 DEF FreshEntry
  <2>4. ~FreshEntry(keys[j.rid])'
    BY <2>1 DEF FreshEntry
  <2> QED BY <2>1, <2>2, <2>3, <2>4 DEF Kept, HandlesKept
<1>6. ASSUME j.pc = "attach"
      PROVE  node'[j.ref].entry = node[j.ref].entry /\ ProviderOf(node[j.ref].entry)' = ProviderOf(node[j.ref].entry)
  <2>1. j.ref \in Ref /\ j.ref \in Mine(j) BY <1>1, <1>6, ConstantsOK DEF JobOK, Job, Mine
  <2>2. node[j.ref] # NoRef BY <2>1 DEF RegistryInv, Owners
  <2>3. node'[j.ref] # NoRef BY <1>1, <2>1 DEF RegistryInv, Owners
  <2>4. node'[j.ref].entry = node[j.ref].entry BY <2>1, <2>2, <2>3 DEF Kept, NodesKept
  <2>5. node[j.ref].entry \in Entry BY <2>1, <2>2 DEF RegistryInv, RegistryType, NodeRecord
  <2>6. ~FreshEntry(node[j.ref].entry) BY <2>1, <2>2 DEF FreshEntry
  <2>7. ~FreshEntry(node[j.ref].entry)' BY <2>1, <2>3, <2>4 DEF FreshEntry
  <2> QED BY <2>4, <2>5, <2>6, <2>7 DEF Kept, HandlesKept
<1>7. j.pc \in {"found", "register", "create"} => j.entry \in Entry BY <1>1 DEF JobOK
<1>8. /\ Working(j) => call'[v].stage \in {"run", "bound"} /\ j.ctx = call'[v].ctx
      /\ j.using # NoEntry => j.pc \in {"acquired", "use", "destroy", "unregister"}
      /\ j.pc \in Loading =>
            /\ j.slot[1] \in {"openssl", "pkcs11"}
            /\ j.ctx \in contexts' => j.slot[1] = ctx'[j.ctx].provider
  BY <1>1, <1>2 DEF WorkerBound
<1>9. /\ j.pc \in {"found", "register"} => mat'[j.entry].handle.provider = j.slot[1]
      /\ j.pc = "create" /\ j.ctx \in contexts' => mat'[j.entry].handle.provider = ctx'[j.ctx].provider
  BY <1>1, <1>2, <1>3, <1>7 DEF WorkerBound, ProviderOf
<1>10. j.pc = "winner" =>
          j.rid < nextId' /\ (keys'[j.rid] # NoEntry => mat'[keys'[j.rid]].handle.provider = j.slot[1])
  BY <1>1, <1>4, <1>5 DEF WorkerBound, ProviderOf
<1>11. j.pc = "attach" /\ j.ctx \in contexts' =>
          mat'[node'[j.ref].entry].handle.provider = ctx'[j.ctx].provider
  BY <1>1, <1>2, <1>6 DEF WorkerBound, ProviderOf
<1> QED BY <1>1, <1>8, <1>9, <1>10, <1>11 DEF WorkerBound, ProviderOf, Working

\* The slots and the bound keys, when the step adds neither.
LEMMA SlotStep ==
  ASSUME RegistryInv, RegistryInv', Bindings, HandlesKept, KeysKept, NEW s \in Slot,
         slotToId'[s] \in {slotToId[s], 0}
  PROVE  /\ slotToId'[s] < nextId'
         /\ FindBySlot(s)' # NoEntry => mat'[FindBySlot(s)'].handle.provider = s[1]
<1>1. /\ slotToId[s] < nextId /\ (FindBySlot(s) # NoEntry => mat[FindBySlot(s)].handle.provider = s[1])
  BY DEF Bindings, SlotBound, ProviderOf
<1>2. nextId \in Nat \ {0} /\ nextId' \in Nat \ {0} /\ nextId <= nextId' /\ slotToId[s] \in RegId \cup {0}
  BY SMT DEF RegistryInv, RegistryType, KeysKept, RegId
<1>3. slotToId'[s] < nextId' BY <1>1, <1>2, SMT DEF RegId
<1>4. ASSUME FindBySlot(s)' # NoEntry
      PROVE  FindBySlot(s)' = FindBySlot(s) /\ FindBySlot(s) # NoEntry
  <2>1. slotToId'[s] # 0 /\ slotToId'[s] = slotToId[s] /\ slotToId[s] \in RegId BY <1>2, <1>4 DEF FindBySlot
  <2>2. keys'[slotToId[s]] \in {keys[slotToId[s]], NoEntry} BY <1>1, <2>1 DEF KeysKept
  <2> QED BY <1>4, <2>1, <2>2 DEF FindBySlot
<1>5. ASSUME FindBySlot(s)' # NoEntry
      PROVE  mat'[FindBySlot(s)].handle.provider = mat[FindBySlot(s)].handle.provider
  <2> DEFINE i == slotToId[s]
  <2>1. i \in RegId /\ FindBySlot(s) = keys[i] /\ keys[i] # NoEntry BY <1>2, <1>4, <1>5 DEF FindBySlot
  <2>2. keys[i] \in Entry BY <2>1 DEF RegistryInv, RegistryType
  <2>3. keys'[i] = keys[i]
    <3>1. slotToId'[s] = i BY <1>2, <1>5 DEF FindBySlot
    <3> QED BY <1>4, <1>5, <2>1, <3>1 DEF FindBySlot
  <2>4. ~FreshEntry(keys[i]) BY <2>1 DEF FreshEntry
  <2>5. \A e : e = keys[i] => ~FreshEntry(e)' BY <2>1, <2>3 DEF FreshEntry
  <2> QED BY <2>1, <2>2, <2>4, <2>5 DEF HandlesKept, ProviderOf
<1> QED BY <1>1, <1>3, <1>4, <1>5

LEMMA SlotsBound ==
  ASSUME RegistryInv, RegistryInv', Bindings, HandlesKept, KeysKept,
         \A s \in Slot : slotToId'[s] \in {slotToId[s], 0}
  PROVE  SlotBound'
  BY SlotStep DEF SlotBound, ProviderOf

LEMMA NodeStep ==
  ASSUME RegistryInv, RegistryInv', Bindings, Kept, NEW r \in Ref, Attached(r), Attached(r)',
         node'[r].ctx = node[r].ctx, node[r].ctx \in contexts'
  PROVE  mat'[node'[r].entry].handle.provider = ctx'[node'[r].ctx].provider
<1>1. mat[node[r].entry].handle.provider = ctx[node[r].ctx].provider BY DEF Bindings, NodeBound, ProviderOf
<1>2. node[r] # NoRef /\ node'[r] # NoRef BY DEF Attached
<1>3. node'[r].entry = node[r].entry BY <1>2 DEF Kept, NodesKept
<1>4. node[r].entry \in Entry BY <1>2 DEF RegistryInv, RegistryType, NodeRecord
<1>5. ~FreshEntry(node[r].entry) BY <1>2 DEF FreshEntry
<1>6. \A e : e = node[r].entry => ~FreshEntry(e)' BY <1>2, <1>3 DEF FreshEntry
<1>7. mat'[node[r].entry].handle.provider = mat[node[r].entry].handle.provider
  BY <1>4, <1>5, <1>6 DEF Kept, HandlesKept, ProviderOf
<1>8. ctx'[node[r].ctx].provider = ctx[node[r].ctx].provider BY DEF Kept, ContextsKept
<1> QED BY <1>1, <1>3, <1>7, <1>8

LEMMA NodesBound ==
  ASSUME RegistryInv, RegistryInv', Bindings, Kept,
         \A r \in Ref : Attached(r)' => Attached(r) /\ node'[r].ctx = node[r].ctx /\ node[r].ctx \in contexts'
  PROVE  NodeBound'
<1> SUFFICES ASSUME NEW r \in Ref, Attached(r)'
             PROVE  /\ node'[r].ctx \in contexts'
                    /\ mat'[node'[r].entry].handle.provider = ctx'[node'[r].ctx].provider
  BY DEF NodeBound, ProviderOf
<1> QED BY NodeStep

\* The memory of the keys: it stays, or there is one more key.
LEMMA MemoryKept ==
  ASSUME Bindings, KeepMaterial
  PROVE  Materials' /\ HandlesKept
<1>1. Made(NoMaterial) BY SMT DEF Made, NoMaterial
<1>2. \A e \in Entry : mat'[e] \in {NoMaterial, mat[e]} BY DEF KeepMaterial
<1>3. \A e \in Entry : Made(mat'[e]) BY <1>1, <1>2 DEF Bindings, Materials
<1>4. mat' = [e \in Entry |-> mat'[e]] BY SMT DEF KeepMaterial
<1>5. Materials' BY <1>3, <1>4, SMT DEF Materials, Made
<1>6. HandlesKept BY DEF KeepMaterial, HandlesKept, ProviderOf
<1> QED BY <1>5, <1>6

LEMMA MemoryMade ==
  ASSUME Bindings, NEW w \in Worker, NEW h, NEW asked, NEW pub, NEW slot,
         MakeMaterial(w, Material(h, asked, pub, slot)), FreshEntry(job'[w].entry), job'[w].entry \in Entry
  PROVE  Materials' /\ HandlesKept /\ mat'[job'[w].entry].handle = h
<1>0. PICK m : m = Material(h, asked, pub, slot) OBVIOUS
<1>1. Made(NoMaterial) /\ Made(m) /\ m.handle = h BY <1>0, SMT DEF Made, NoMaterial, Material
<1>2. /\ \A e \in Entry : mat'[e] \in {NoMaterial, m, mat[e]}
      /\ \A e \in Entry : FreshEntry(e) \/ FreshEntry(e)' \/ mat'[e] = mat[e]
      /\ mat' = [e \in Entry |-> mat'[e]]
  BY <1>0 DEF MakeMaterial
<1>3. \A e \in Entry : Made(mat'[e]) BY <1>1, <1>2 DEF Bindings, Materials
<1>4. Materials' BY <1>2, <1>3, SMT DEF Materials, Made
<1>5. HandlesKept BY <1>2 DEF HandlesKept, ProviderOf
<1>6. \A e \in Entry : e = job'[w].entry => ~FreshEntry(e)' BY DEF FreshEntry
<1>7. mat'[job'[w].entry] = m BY <1>0, <1>6 DEF MakeMaterial
<1> QED BY <1>1, <1>4, <1>5, <1>7

\* Whatever one thread does, the parts are put together again.
LEMMA Rebound ==
  ASSUME RegistryInv, RegistryInv', Bindings, Materials', Kept, SlotBound', NodeBound', NEW w \in Worker,
         WorkerBound(w)',
         \A v \in Worker \ {w} : job'[v] = job[v] /\ call'[v].stage = call[v].stage /\ call'[v].ctx = call[v].ctx
  PROVE  Bindings'
<1>1. \A v \in Worker : WorkerBound(v)'
  <2> TAKE v \in Worker
  <2>1. CASE v = w BY <2>1
  <2>2. CASE v # w BY <2>2, OthersBound
  <2> QED BY <2>1, <2>2
<1> QED BY <1>1 DEF Bindings

\* A step that only moves its own job on.
LEMMA CalmBound ==
  ASSUME RegistryInv, RegistryInv', Bindings, Materials', HandlesKept, NEW w \in Worker, WorkerBound(w)',
         UNCHANGED <<keys, slotToId, nextId, node, contexts, ctx>>,
         \A v \in Worker \ {w} : job'[v] = job[v] /\ call'[v].stage = call[v].stage /\ call'[v].ctx = call[v].ctx
  PROVE  Bindings'
<1>1. Kept
  <2>1. nextId <= nextId' BY SMT DEF RegistryInv, RegistryType
  <2> QED BY <2>1 DEF Kept, ContextsKept, KeysKept, NodesKept
<1>2. SlotBound' BY <1>1, SlotsBound DEF Kept
<1>3. NodeBound'
  <2>1. \A r \in Ref : Attached(r)' => Attached(r) /\ node'[r].ctx = node[r].ctx /\ node[r].ctx \in contexts'
    BY DEF Attached, Bindings, NodeBound
  <2> QED BY <1>1, <2>1, NodesBound
<1> QED BY <1>1, <1>2, <1>3, Rebound

\* A request without a key in its hands.
LEMMA EmptyHanded ==
  ASSUME NEW w \in Worker, job'[w].using = NoEntry, job'[w].pc \in {"idle", "leave", "destroy", "unregister"}
  PROVE  WorkerBound(w)'
  BY SMT DEF WorkerBound, Working, Loading

\* A key that is in use before and after a step is the same key.
LEMMA SameKey ==
  ASSUME RegistryInv, RegistryInv', HandlesKept, NEW e \in Entry, NEW w \in Worker,
         \/ e \in {job[w].entry, job[w].held}
         \/ \E i \in RegId : keys[i] = e
         \/ \E r \in Ref : node[r] # NoRef /\ node[r].entry = e,
         \/ e \in {job'[w].entry, job'[w].held}
         \/ \E i \in RegId : keys'[i] = e
         \/ \E r \in Ref : node'[r] # NoRef /\ node'[r].entry = e
  PROVE  mat'[e].handle.provider = mat[e].handle.provider
<1>1. ~FreshEntry(e) BY DEF FreshEntry
<1>2. ~FreshEntry(e)' BY DEF FreshEntry
<1> QED BY <1>1, <1>2 DEF HandlesKept, ProviderOf

\* LoadOrShare, for a slot of the context's provider.
LEMMA LoadBound ==
  ASSUME RegistryInv, RegistryInv', Bindings, NEW w \in Worker, NEW c, NEW p, NEW n, LoadOrShare(w, c, <<p, n>>),
         KeepMaterial, p = ctx[c].provider, p \in {"openssl", "pkcs11"}, ctx' = ctx,
         call'[w].stage \in {"run", "bound"}, call'[w].ctx = c, \A v \in Worker \ {w} : call'[v] = call[v]
  PROVE  Bindings'
<1> DEFINE s == <<p, n>>
<1>1. /\ job'[w].pc = (IF FindBySlot(s) # NoEntry THEN "found" ELSE "load") /\ job'[w].ctx = c /\ job'[w].slot = s
      /\ job'[w].entry = FindBySlot(s) /\ job'[w].using = NoEntry /\ \A v \in Worker \ {w} : job'[v] = job[v]
  <2>1. job \in [Worker -> Job] BY DEF RegistryInv, RegistryType
  <2> QED BY <2>1, SMT DEF LoadOrShare, Idle
<1>2. UNCHANGED <<keys, slotToId, nextId, node, contexts, ctx>> BY DEF LoadOrShare
<1>3. Materials' /\ HandlesKept BY MemoryKept
<1>4. s \in Slot BY <1>1 DEF RegistryInv, RegistryType, JobOK
<1>5. ASSUME FindBySlot(s) # NoEntry PROVE mat'[job'[w].entry].handle.provider = p
  <2>1. mat[FindBySlot(s)].handle.provider = s[1] BY <1>4, <1>5 DEF Bindings, SlotBound, ProviderOf
  <2>2. slotToId[s] \in RegId /\ FindBySlot(s) = keys[slotToId[s]]
    <3>1. slotToId[s] \in 0..MaxRegId /\ slotToId[s] # 0 BY <1>4, <1>5 DEF RegistryInv, RegistryType, FindBySlot
    <3>2. slotToId[s] \in RegId BY <3>1, ConstantsOK, SMT DEF RegId
    <3> QED BY <1>5, <3>2 DEF FindBySlot
  <2>3. FindBySlot(s) \in Entry BY <1>5, <2>2 DEF RegistryInv, RegistryType
  <2>4. mat'[FindBySlot(s)].handle.provider = mat[FindBySlot(s)].handle.provider
    <3> PICK e \in Entry : e = FindBySlot(s) BY <2>3
    <3>1. e = job'[w].entry /\ \E i \in RegId : keys[i] = e BY <1>1, <2>2
    <3> QED BY <1>3, <3>1, SameKey
  <2>5. s[1] = p BY SMT
  <2> QED BY <1>1, <2>1, <2>4, <2>5
<1>6. WorkerBound(w)'
  <2>1. job'[w].slot[1] = p BY <1>1, SMT
  <2>2. job'[w].pc \in {"found", "load"} /\ (job'[w].pc = "found" => FindBySlot(s) # NoEntry) BY <1>1, SMT
  <2>3. /\ (job'[w].pc = "found" => mat'[job'[w].entry].handle.provider = job'[w].slot[1])
        /\ job'[w].slot[1] \in {"openssl", "pkcs11"} /\ job'[w].slot[1] = ctx'[job'[w].ctx].provider
    BY <1>1, <1>2, <1>5, <2>1, <2>2
  <2> QED BY <1>1, <2>2, <2>3, SMT DEF WorkerBound, Loading, ProviderOf
<1> QED BY <1>1, <1>2, <1>3, <1>6, CalmBound

\* BindLoadedKey, for a key of the context's provider.
LEMMA BindBound ==
  ASSUME RegistryInv, RegistryInv', Bindings, NEW w \in Worker, NEW c, NEW r, BindLoadedKey(w, r, c), r \in Ref,
         KeepMaterial, KeyOf(r).provider = ctx[c].provider, ctx' = ctx,
         call'[w].stage \in {"run", "bound"}, call'[w].ctx = c, \A v \in Worker \ {w} : call'[v] = call[v]
  PROVE  Bindings'
<1>1. /\ job'[w].pc = "create" /\ job'[w].ctx = c /\ job'[w].entry = node[r].entry /\ job'[w].using = NoEntry
      /\ \A v \in Worker \ {w} : job'[v] = job[v]
  <2>1. job \in [Worker -> Job] BY DEF RegistryInv, RegistryType
  <2> QED BY <2>1, SMT DEF BindLoadedKey, Idle
<1>2. UNCHANGED <<keys, slotToId, nextId, node, contexts, ctx>> BY DEF BindLoadedKey
<1>3. Materials' /\ HandlesKept BY MemoryKept
<1>4. node[r] # NoRef /\ node[r].entry \in Entry BY DEF BindLoadedKey, Attached, RegistryInv, RegistryType, NodeRecord
<1>5. mat'[node[r].entry].handle.provider = mat[node[r].entry].handle.provider BY <1>1, <1>3, <1>4, SameKey
<1>6. mat'[job'[w].entry].handle.provider = ctx'[job'[w].ctx].provider BY <1>1, <1>2, <1>5 DEF KeyOf
<1>7. WorkerBound(w)' BY <1>1, <1>6, SMT DEF WorkerBound, Loading, ProviderOf
<1> QED BY <1>1, <1>2, <1>3, <1>7, CalmBound

\* RegisterKeyMaterial of a key that the context's provider made.
LEMMA EphemeralBound ==
  ASSUME RegistryInv, RegistryInv', Bindings, NEW w \in Worker, NEW c, RegisterEphemeralKey(w, c),
         NEW h, NEW asked, NEW pub, NEW slot, MakeMaterial(w, Material(h, asked, pub, slot)),
         h.provider = ctx[c].provider, ctx' = ctx,
         call'[w].stage \in {"run", "bound"}, call'[w].ctx = c, \A v \in Worker \ {w} : call'[v] = call[v]
  PROVE  Bindings'
<1>1. PICK e \in Entry :
         /\ FreshEntry(e) /\ keys' = [keys EXCEPT ![nextId] = e]
         /\ job' = [job EXCEPT ![w] = [Idle EXCEPT !.pc = "create", !.ctx = c, !.entry = e,
                                                  !.rid = nextId, !.held = job[w].held]]
  BY DEF RegisterEphemeralKey
<1>2. /\ job'[w].pc = "create" /\ job'[w].ctx = c /\ job'[w].entry = e /\ job'[w].using = NoEntry
      /\ \A v \in Worker \ {w} : job'[v] = job[v]
  <2>1. job \in [Worker -> Job] BY DEF RegistryInv, RegistryType
  <2>2. PICK k : k = job[w].held OBVIOUS
  <2>3. PICK j : j = [Idle EXCEPT !.pc = "create", !.ctx = c, !.entry = e, !.rid = nextId, !.held = k] OBVIOUS
  <2>4. j.pc = "create" /\ j.ctx = c /\ j.entry = e /\ j.using = NoEntry BY <2>3, SMT DEF Idle
  <2>5. job' = [job EXCEPT ![w] = j] BY <1>1, <2>2, <2>3
  <2> QED BY <2>1, <2>4, <2>5
<1>3. UNCHANGED <<slotToId, node, contexts, ctx>> /\ nextId' = nextId + 1 BY DEF RegisterEphemeralKey
<1>4. Materials' /\ HandlesKept /\ mat'[e].handle = h
  <2>1. FreshEntry(job'[w].entry) /\ job'[w].entry \in Entry BY <1>1, <1>2
  <2> QED BY <1>2, <2>1, MemoryMade
<1>5. KeysKept
  <2>1. nextId \in Nat /\ keys \in [RegId -> Entry \cup {NoEntry}] BY DEF RegistryInv, RegistryType
  <2>2. nextId <= nextId' BY <1>3, <2>1, SMT
  <2>3. \A i \in RegId : i < nextId => i # nextId BY <2>1, SMT DEF RegId
  <2>4. \A i \in RegId : i # nextId => keys'[i] = keys[i] BY <1>1, <2>1
  <2> QED BY <2>2, <2>3, <2>4 DEF KeysKept
<1>6. Kept BY <1>3, <1>4, <1>5 DEF Kept, ContextsKept, NodesKept
<1>7. SlotBound' BY <1>3, <1>4, <1>5, SlotsBound
<1>8. NodeBound'
  <2>1. \A r \in Ref : Attached(r)' => Attached(r) /\ node'[r].ctx = node[r].ctx /\ node[r].ctx \in contexts'
    BY <1>3 DEF Attached, Bindings, NodeBound
  <2> QED BY <1>6, <2>1, NodesBound
<1>9. WorkerBound(w)'
  <2>1. mat'[job'[w].entry].handle.provider = ctx'[job'[w].ctx].provider BY <1>2, <1>3, <1>4
  <2> QED BY <1>2, <2>1, SMT DEF WorkerBound, Loading, ProviderOf
<1> QED BY <1>2, <1>4, <1>6, <1>7, <1>8, <1>9, Rebound

\* A destructor that is done leaves the request what it works for.
LEMMA ProceedsFor ==
  ASSUME RegistryInv, NEW w \in Worker, NEW j \in Job, Proceed(w, j)
  PROVE  /\ job'[w].pc \in {"use", "leave", "destroy"} /\ (job'[w].pc = "use" <=> job'[w].pc # "destroy" /\ j.using # NoEntry)
         /\ job'[w].using = j.using /\ job'[w].ctx = j.ctx
         /\ \A v \in Worker \ {w} : job'[v] = job[v]
<1>1. job \in [Worker -> Job] BY DEF RegistryInv, RegistryType
<1>2. CASE j.more = {} /\ job' = [job EXCEPT ![w] =
              [j EXCEPT !.pc = IF j.using # NoEntry THEN "use" ELSE "leave",
                        !.ref = NoRef, !.entry = NoEntry, !.locked = FALSE]]
  <2>1. PICK p : p = (IF j.using # NoEntry THEN "use" ELSE "leave") OBVIOUS
  <2>2. PICK k : k = [j EXCEPT !.pc = p, !.ref = NoRef, !.entry = NoEntry, !.locked = FALSE] OBVIOUS
  <2>3. k.pc = p /\ k.using = j.using /\ k.ctx = j.ctx BY <2>2, SMT DEF Job
  <2>4. job' = [job EXCEPT ![w] = k] BY <1>2, <2>1, <2>2
  <2>5. job'[w] = k /\ \A v \in Worker \ {w} : job'[v] = job[v] BY <1>1, <2>4
  <2> QED BY <2>1, <2>3, <2>5
<1>3. ASSUME NEW r, job' = [job EXCEPT ![w] = [j EXCEPT !.pc = "destroy", !.ref = r, !.entry = NoEntry,
                                                      !.more = @ \ {r}]]
      PROVE  /\ job'[w].pc = "destroy" /\ job'[w].using = j.using /\ job'[w].ctx = j.ctx
             /\ \A v \in Worker \ {w} : job'[v] = job[v]
  <2>1. PICK k : k = [j EXCEPT !.pc = "destroy", !.ref = r, !.entry = NoEntry, !.more = @ \ {r}] OBVIOUS
  <2>2. k.pc = "destroy" /\ k.using = j.using /\ k.ctx = j.ctx BY <2>1, SMT DEF Job
  <2> QED BY <1>1, <1>3, <2>1, <2>2
<1> QED BY <1>2, <1>3 DEF Proceed

\* deleteNode: the context goes with the keys below it.
LEMMA RemoveBound ==
  ASSUME RegistryInv, RegistryInv', Bindings, NEW w \in Worker, NEW doomed \in SUBSET Ref, RemoveNodes(w, doomed),
         KeepMaterial, \A r \in doomed : Attached(r), ContextsKept, \A r \in Ref \ doomed : Attached(r) => node[r].ctx \in contexts',
         \A v \in Worker \ {w} : call'[v] = call[v]
  PROVE  Bindings'
<1>1. /\ job'[w].pc \in {"leave", "destroy"} /\ job'[w].using = NoEntry
      /\ \A v \in Worker \ {w} : job'[v] = job[v]
  <2> DEFINE u == {r \in doomed : \A v \in Worker : job[v].src # r}
             l == u # {}
             j == [Idle EXCEPT !.more = u, !.locked = l]
  <2>2. u \in SUBSET Ref /\ l \in BOOLEAN /\ Proceed(w, j) BY DEF RemoveNodes
  <2> HIDE DEF u, l
  <2>3. j \in Job /\ j.using = NoEntry BY <2>2, IdleJobOK DEF Job
  <2> HIDE DEF j
  <2> QED BY <2>2, <2>3, ProceedsFor
<1>2. UNCHANGED <<keys, slotToId, nextId>> BY DEF RemoveNodes
<1>3. Materials' /\ HandlesKept BY MemoryKept
<1>4. \A r \in Ref : /\ r \notin doomed => node'[r] = node[r]
                     /\ r \in doomed => node'[r] = [node[r] EXCEPT !.attached = FALSE]
  BY DEF RemoveNodes
<1>5. \A r \in Ref : node[r] # NoRef => node[r] \in NodeRecord BY DEF RegistryInv, RegistryType
<1>6. NodesKept
  <2> SUFFICES ASSUME NEW r \in Ref, node[r] # NoRef PROVE node'[r].entry = node[r].entry BY DEF NodesKept
  <2>1. node[r] \in NodeRecord BY <1>5
  <2>2. [node[r] EXCEPT !.attached = FALSE].entry = node[r].entry BY <2>1, SMT DEF NodeRecord
  <2>3. CASE r \in doomed BY <1>4, <2>2, <2>3
  <2>4. CASE r \notin doomed BY <1>4, <2>4
  <2> QED BY <2>3, <2>4
<1>7. ASSUME NEW r \in Ref, Attached(r)'
      PROVE  Attached(r) /\ node'[r].ctx = node[r].ctx /\ node[r].ctx \in contexts'
  <2>1. node'[r] # NoRef /\ node'[r].attached BY <1>7 DEF Attached
  <2>2. r \notin doomed
    <3> SUFFICES ASSUME r \in doomed PROVE FALSE OBVIOUS
    <3>1. node'[r] = [node[r] EXCEPT !.attached = FALSE] BY <1>4
    <3>2. CASE node[r] \in NodeRecord
      <4>1. ~[node[r] EXCEPT !.attached = FALSE].attached BY <3>2, SMT DEF NodeRecord
      <4> QED BY <2>1, <3>1, <4>1
    <3> QED BY <1>5, <3>2 DEF Attached
  <2>3. node'[r] = node[r] BY <1>4, <2>2
  <2>4. Attached(r) BY <2>1, <2>3 DEF Attached
  <2> QED BY <2>2, <2>3, <2>4
<1>8. Kept
  <2>1. nextId <= nextId' BY <1>2, SMT DEF RegistryInv, RegistryType
  <2> QED BY <1>2, <1>3, <1>6, <2>1 DEF Kept, KeysKept
<1>9. SlotBound' BY <1>2, <1>8, SlotsBound DEF Kept
<1>10. NodeBound' BY <1>7, <1>8, NodesBound
<1>11. WorkerBound(w)' BY <1>1, EmptyHanded
<1> QED BY <1>1, <1>3, <1>8, <1>9, <1>10, <1>11, Rebound

\* The steps of LoadOrShare and RegisterKeyMaterial up to the key.
LEMMA AdvanceBound ==
  ASSUME RegistryInv, RegistryInv', Bindings, NEW w \in Worker, Materials', HandlesKept,
         UNCHANGED <<keys, slotToId, nextId, node, contexts, ctx, call>>,
         \A v \in Worker \ {w} : job'[v] = job[v],
         job[w].pc \in Loading, job'[w].pc \in Loading \cup {"create", "leave"},
         job'[w].ctx = job[w].ctx, job'[w].slot = job[w].slot, job'[w].using = job[w].using,
         job'[w].pc \in {"found", "register", "create"} =>
            mat'[job'[w].entry].handle.provider = job[w].slot[1],
         job'[w].pc = "winner" =>
            /\ job'[w].rid < nextId
            /\ keys[job'[w].rid] # NoEntry => mat[keys[job'[w].rid]].handle.provider = job[w].slot[1]
  PROVE  Bindings'
<1> DEFINE j == job'[w]
<1>1. /\ call'[w].stage \in {"run", "bound"} /\ j.ctx = call'[w].ctx /\ j.using = NoEntry
      /\ j.slot[1] \in {"openssl", "pkcs11"} /\ (j.ctx \in contexts' => j.slot[1] = ctx'[j.ctx].provider)
  <2>1. WorkerBound(w) BY DEF Bindings
  <2>2. Working(job[w]) BY DEF Working
  <2>3. job[w].pc \notin {"acquired", "use", "destroy", "unregister"} BY SMT DEF Loading
  <2> QED BY <2>1, <2>2, <2>3 DEF WorkerBound
<1>2. ASSUME j.pc = "winner", keys'[j.rid] # NoEntry PROVE mat'[keys'[j.rid]].handle.provider = j.slot[1]
  <2>1. j.rid \in RegId BY <1>2 DEF RegistryInv, RegistryType, JobOK
  <2>2. PICK e \in Entry : e = keys[j.rid] BY <1>2, <2>1 DEF RegistryInv, RegistryType
  <2>3. mat'[e].handle.provider = mat[e].handle.provider BY <2>1, <2>2, SameKey
  <2> QED BY <1>2, <2>2, <2>3
<1>3. WorkerBound(w)'
  <2>1. j.pc \notin {"attach", "acquired", "use"} BY SMT DEF Loading
  <2>2. j.pc = "winner" =>
           j.rid < nextId' /\ (keys'[j.rid] # NoEntry => mat'[keys'[j.rid]].handle.provider = j.slot[1])
    BY <1>2
  <2>3. j.pc = "create" /\ j.ctx \in contexts' => mat'[j.entry].handle.provider = ctx'[j.ctx].provider BY <1>1
  <2>4. j.pc \in {"found", "register"} => mat'[j.entry].handle.provider = j.slot[1]
    <3> SUFFICES ASSUME j.pc \in {"found", "register"} PROVE mat'[j.entry].handle.provider = j.slot[1] OBVIOUS
    <3>1. mat'[j.entry].handle.provider = job[w].slot[1] OBVIOUS
    <3> QED BY <3>1
  <2> QED BY <1>1, <2>1, <2>2, <2>3, <2>4 DEF WorkerBound, ProviderOf
<1> QED BY <1>3, CalmBound

============================================================================
