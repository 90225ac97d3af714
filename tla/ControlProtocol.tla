--------------------------- MODULE ControlProtocol ---------------------------
(***************************************************************************)
(* The messages between the client library and the daemon: the builders    *)
(* that put them together, their conversion to FlatBuffers and back on     *)
(* both sides, and the validator through which the client reads a reply.   *)
(* A request and a reply are sequences of operations; a parameter is a     *)
(* pair of its type and its value.  The two ends support different types:  *)
(* a parameter that cannot be converted is skipped, and the ones behind it *)
(* move up.                                                                *)
(***************************************************************************)
EXTENDS Naturals, SequencesExt

Param(type, val) == <<type, val>>
TypeOf(p) == p[1]
ValOf(p) == p[2]

Integral == {"uint8", "uint16", "uint32", "uint64"}
Scalar == Integral \cup {"none", "bool"}

Converted(params, Supported, Convert(_)) ==
    LET kept == SelectSeq(params, LAMBDA p : TypeOf(p) \in Supported)
    IN [i \in DOMAIN kept |-> Convert(kept[i])]

(***************************************************************************)
(* OperationRequestBuilder, ControlRequestBuilder and                      *)
(* OperationResponseBuilder.  A parameter needs an operation; without one  *)
(* the builder remembers the error, and build() fails.                     *)
(***************************************************************************)
EmptyBuilder == [ops |-> <<>>, error |-> FALSE]
Built == [ok |-> FALSE, ops |-> <<>>]
kInternalError == "InternalError"
Success == "success"

\* The operation that a builder is at, replaced.
Amend(b, op) == [b EXCEPT !.ops[Len(b.ops)] = op]
Current(b) == b.ops[Len(b.ops)]

RequestOperation(b, id) == [b EXCEPT !.ops = Append(@, [id |-> id, params |-> <<>>])]

With(b, p) ==
    IF b.ops = <<>> THEN [b EXCEPT !.error = TRUE]
    ELSE Amend(b, [Current(b) EXCEPT !.params = Append(@, p)])

WithAll(b, params) == FoldLeft(With, b, params)

DataShm(node, off, size, direction) ==
    Param("shm", [node |-> node, off |-> off, size |-> size, dir |-> direction])

BuildOperations(b) == IF b.error THEN Built ELSE [ok |-> TRUE, ops |-> b.ops]

ControlRequest(id, client, node, ops) ==
    [request_id |-> id, client_id |-> client, data_node_id |-> node, ops |-> ops]

\* ControlRequestBuilder: the transport fills in the ids.
BuildControlRequest(node, b) ==
    LET built == BuildOperations(b)
    IN [ok |-> built.ok, request |-> ControlRequest(0, 0, node, built.ops)]

ResponseOperation(b, id) ==
    [b EXCEPT !.ops = Append(@, [id |-> id, result |-> kInternalError, params |-> <<>>])]

ReturnResult(b, result) ==
    IF b.ops = <<>> THEN [b EXCEPT !.error = TRUE]
    ELSE Amend(b, [Current(b) EXCEPT !.result = result])

ReturnValue(b, p) == With(b, p)

ReturnOperationResponse(b, id, result, params) ==
    LET c == ReturnResult(ResponseOperation(b, id), result)
    IN Amend(c, [Current(c) EXCEPT !.params = params])

(***************************************************************************)
(* The client's side of the transport: GrpcControlClient.                  *)
(***************************************************************************)
BuildRequestParameters(params) ==
    Converted(params, Scalar \cup {"string_view", "span", "shm"},
              LAMBDA p : CASE TypeOf(p) = "string_view" -> Param("string", ValOf(p))
                           [] TypeOf(p) = "span" -> Param("in_band", ValOf(p))
                           [] OTHER -> p)

ConvertRequest(request) ==
    [request EXCEPT !.ops = [i \in DOMAIN @ |->
        [@[i] EXCEPT !.params = BuildRequestParameters(@)]]]

ExtractResponseParameters(wire) ==
    Converted(wire, Scalar \cup {"string", "in_band"},
              LAMBDA p : CASE TypeOf(p) = "string" -> Param("owned_string", ValOf(p))
                           [] TypeOf(p) = "in_band" -> Param("owned_buffer", ValOf(p))
                           [] OTHER -> p)

ConvertResponse(response) ==
    [response EXCEPT !.ops = [i \in DOMAIN @ |->
        [@[i] EXCEPT !.params = ExtractResponseParameters(@)]]]

(***************************************************************************)
(* The daemon's side: GrpcControlServiceAdapter.                           *)
(***************************************************************************)
ExtractRequestParameters(wire) ==
    Converted(SelectSeq(wire, LAMBDA p : TypeOf(p) = "shm" => ValOf(p).dir \in {"In", "InOut"}),
              Scalar \cup {"string", "in_band", "shm"},
              LAMBDA p : CASE TypeOf(p) = "string" -> Param("string_view", ValOf(p))
                           [] TypeOf(p) = "in_band" -> Param("span", ValOf(p))
                           [] OTHER -> p)

ReadRequest(wire) ==
    [wire EXCEPT !.ops = [i \in DOMAIN @ |->
        [@[i] EXCEPT !.params = ExtractRequestParameters(@)]]]

BuildResponseParameters(params) ==
    Converted(params, Scalar \cup {"owned_string", "owned_buffer", "span"},
              LAMBDA p : CASE TypeOf(p) = "owned_string" -> Param("string", ValOf(p))
                           [] TypeOf(p) \in {"owned_buffer", "span"} -> Param("in_band", ValOf(p))
                           [] OTHER -> p)

WriteResponse(response) ==
    [response EXCEPT !.ops = [i \in DOMAIN @ |->
        [@[i] EXCEPT !.params = BuildResponseParameters(@)]]]

(***************************************************************************)
(* ControlResponseValidator.  at counts the operations expected so far;    *)
(* the daemon's verdict is kept apart from the failures of the client.     *)
(***************************************************************************)
Validator(response) == [ops |-> response, at |-> 0, valid |-> TRUE, error |-> Success]

FromResult(has, ops) == IF has THEN Validator(ops) ELSE [Validator(<<>>) EXCEPT !.valid = FALSE]

ExpectOperation(v, id) ==
    IF ~v.valid THEN v
    ELSE [v EXCEPT !.at = v.at + 1,
                   !.valid = v.at < Len(v.ops) /\ v.ops[v.at + 1].id = id]

ExpectSuccess(v) ==
    IF ~v.valid \/ v.ops[v.at].result = Success THEN v
    ELSE [v EXCEPT !.valid = FALSE, !.error = v.ops[v.at].result]

\* getParameterAt<T>, or a result without a value.
HasParameterAt(v, op, idx, type) ==
    /\ v.valid /\ op < Len(v.ops) /\ idx < Len(v.ops[op + 1].params)
    /\ TypeOf(v.ops[op + 1].params[idx + 1]) = type

ParameterAt(v, op, idx) == ValOf(v.ops[op + 1].params[idx + 1])

(***************************************************************************)
(* GrpcControlClient::SendRequest around the call of the service.          *)
(***************************************************************************)
\* The request as the daemon reads it, under the ids of the transport.
Delivered(request, id, client) ==
    ReadRequest(ConvertRequest([request EXCEPT !.request_id = id, !.client_id = client]))

\* The reply as the client reads it; it must answer this request.
Returned(id, response) ==
    LET read == ConvertResponse(WriteResponse(response))
    IN FromResult(read.request_id = id, read.ops)

=============================================================================
