----------------------------- MODULE AiProtocol -----------------------------
(***************************************************************************)
(* The contract between the sensor and the inference server: the features  *)
(* of a flow (flow/flow.h, ai/flow_features.cpp), the request and the      *)
(* reading of the reply (ai/ai_protocol.cpp), and the server's side of it  *)
(* (ml/online_server.py).                                                  *)
(*                                                                         *)
(* A number is known by whether it is finite; JSON has no way to write one *)
(* that is not.  Addresses, ports and times are numbers of their type.     *)
(***************************************************************************)
EXTENDS Integers, Sequences

CONSTANTS
  FlowIds,        \* ids of flows
  ModelVersions,  \* model versions
  Counts,         \* packets of one direction
  Times,          \* moments of the steady clock, in microseconds
  Anchors,        \* wall clock of the moment 0, in microseconds
  Scores,         \* finite reconstruction errors
  THRESHOLD       \* the model's threshold

ASSUME ProtocolAssumption ==
  /\ Counts \subseteq Nat /\ Times \subseteq Nat /\ Anchors \subseteq Nat
  /\ Scores \subseteq Nat /\ THRESHOLD \in Nat

VARIABLE exchange  \* the last exchange: what was sent, answered and understood

FLOW_FEATURE_SCHEMA_VERSION == 1
INT_VALUES == 65536  \* bound: values of an int, more than any schema version

\* A quotient of finite numbers, and a root of a number with the given sign.
Quotient(n) == IF n = 0 THEN "NaN" ELSE "number"
Root(sign)  == IF sign < 0 THEN "NaN" ELSE "number"

-----------------------------------------------------------------------------
(* The sensor's request. *)

\* Bug: no packet, no guard.
MeanUnguarded(count) == Quotient(count)

\* RunningStats::mean()
mean(count) == IF count # 0 THEN Quotient(count) ELSE "number"

\* RunningStats::stddev(); rounding may leave a variance that is negative.
stddev(count, variance) ==
  IF count < 2 THEN "number"
  ELSE IF Quotient(count - 1) = "number" /\ variance > 0 THEN Root(variance)
  ELSE "number"

\* The pauses between so many packets.
Iats(count) == IF count = 0 THEN 0 ELSE count - 1

\* Features are triples: whose, what, and its value.
LengthStats(dir, count, variance) ==
  << <<dir, "LengthMax", "number">>, <<dir, "LengthMin", "number">>,
     <<dir, "LengthMean", mean(count)>>, <<dir, "LengthStd", stddev(count, variance)>> >>

IatStats(dir, count, variance) ==
  << <<dir, "IATMean", mean(count)>>, <<dir, "IATStd", stddev(count, variance)>>,
     <<dir, "IATMax", "number">>, <<dir, "IATMin", "number">> >>

FlagCounts ==
  << <<"Flow", "FIN", "number">>, <<"Flow", "SYN", "number">>, <<"Flow", "RST", "number">>,
     <<"Flow", "PSH", "number">>, <<"Flow", "ACK", "number">>, <<"Flow", "URG", "number">> >>

\* flow_to_features(): 27 features in a fixed order.
flow_to_features(flow) ==
  << <<"Flow", "Duration", "number">>,
     <<"Fwd", "Packets", "number">>, <<"Bwd", "Packets", "number">>,
     <<"Fwd", "Length", "number">>, <<"Bwd", "Length", "number">> >>
    \o LengthStats("Fwd", flow.forward, flow.variance)
    \o LengthStats("Bwd", flow.backward, flow.variance)
    \o IatStats("Fwd", Iats(flow.forward), flow.variance)
    \o IatStats("Bwd", Iats(flow.backward), flow.variance)
    \o FlagCounts

\* PacketCapture::to_epoch_ms()
to_epoch_ms(anchor, time) == (anchor + time) \div 1000

\* flow_end_reason_to_string()
flow_end_reason_to_string(reason) ==
  CASE reason = "TCP_FIN"   -> "tcp_fin"
    [] reason = "TCP_RESET" -> "tcp_reset"
    [] reason = "TIMEOUT"   -> "timeout"

\* serialize_flow_request(); the JSON library writes null for what is not finite.
serialize_flow_request(flow) ==
  LET features == flow_to_features(flow)
  IN [schema_version |-> 1,
      flow_id |-> flow.flow_id,
      first_seen_ms |-> to_epoch_ms(flow.anchor, flow.first_seen),
      last_seen_ms |-> to_epoch_ms(flow.anchor, flow.last_seen),
      end_reason |-> flow_end_reason_to_string(flow.reason),
      feature_schema_version |-> FLOW_FEATURE_SCHEMA_VERSION,
      features |-> [i \in DOMAIN features |->
                      IF features[i][3] = "number" THEN "number" ELSE "null"]]

-----------------------------------------------------------------------------
(* The server. *)

FEATURE_SCHEMA_VERSION == 1

\* The order in which the model was trained, ml/features.py.
FEATURES ==
  << <<"Flow", "Duration">>, <<"Fwd", "Packets">>, <<"Bwd", "Packets">>,
     <<"Fwd", "Length">>, <<"Bwd", "Length">>,
     <<"Fwd", "LengthMax">>, <<"Fwd", "LengthMin">>, <<"Fwd", "LengthMean">>,
     <<"Fwd", "LengthStd">>, <<"Bwd", "LengthMax">>, <<"Bwd", "LengthMin">>,
     <<"Bwd", "LengthMean">>, <<"Bwd", "LengthStd">>,
     <<"Fwd", "IATMean">>, <<"Fwd", "IATStd">>, <<"Fwd", "IATMax">>, <<"Fwd", "IATMin">>,
     <<"Bwd", "IATMean">>, <<"Bwd", "IATStd">>, <<"Bwd", "IATMax">>, <<"Bwd", "IATMin">>,
     <<"Flow", "FIN">>, <<"Flow", "SYN">>, <<"Flow", "RST">>, <<"Flow", "PSH">>,
     <<"Flow", "ACK">>, <<"Flow", "URG">> >>

\* _validate_request(): the code of the first check that fails.
ErrorCode(request) ==
  IF request.schema_version # 1 THEN "SCHEMA_MISMATCH"
  ELSE IF request.feature_schema_version # FEATURE_SCHEMA_VERSION THEN "FEATURE_SCHEMA_MISMATCH"
  ELSE IF \/ request.first_seen_ms < 0 \/ request.last_seen_ms < 0
          \/ request.first_seen_ms > request.last_seen_ms
          \/ request.end_reason \notin {"tcp_fin", "tcp_reset", "timeout"}
       THEN "INVALID_FIELD"
  ELSE IF Len(request.features) # Len(FEATURES) THEN "FEATURE_COUNT_MISMATCH"
  ELSE IF \E i \in DOMAIN request.features : request.features[i] # "number"
       THEN "INVALID_FIELD"
  ELSE "none"

\* infer_request() or _error_response(), of a model that gives the flow this score.  A
\* part of a reply is a set, empty if the part is missing or of another type.
ServerReply(request, version, score) ==
  LET code == ErrorCode(request)
      ok   == code = "none"
  IN [schema_version |-> {1}, flow_id |-> {request.flow_id}, model_version |-> {version},
      ok |-> {ok}, error_code |-> IF ok THEN {} ELSE {code},
      anomaly |-> IF ok THEN {score > THRESHOLD} ELSE {},
      score |-> IF ok THEN {score} ELSE {}, threshold |-> IF ok THEN {THRESHOLD} ELSE {}]

-----------------------------------------------------------------------------
(* The reading of the reply. *)

\* get<int>(), which cuts off the upper half of a wide number.
get_int(n) == n % INT_VALUES

\* The reply names the schema, the flow and the model.
RepliesTo(reply, id, version) ==
  /\ \E n \in reply.schema_version : get_int(n) = 1
  /\ id \in reply.flow_id
  /\ version \in reply.model_version

Refused == [some |-> FALSE]

\* parse_ai_response(), of a reply that is a JSON object; anything else is refused.
parse_ai_response(reply, id, version) ==
  CASE RepliesTo(reply, id, version) /\ FALSE \in reply.ok /\ reply.error_code \notin {{}, {""}} ->
         [some |-> TRUE, ok |-> FALSE, error_code |-> reply.error_code]
    [] /\ RepliesTo(reply, id, version) /\ TRUE \in reply.ok
       /\ reply.anomaly # {}
       /\ \E s \in reply.score : s >= 0
       /\ \E t \in reply.threshold : t >= 0 ->
         [some |-> TRUE, ok |-> TRUE, anomaly |-> reply.anomaly, score |-> reply.score]
    [] OTHER -> Refused

-----------------------------------------------------------------------------
\* Flows as the capture thread hands them over: opened by a packet of their own, and
\* last seen no earlier than first.
Flows ==
  {flow \in [flow_id: FlowIds, forward: Counts \ {0}, backward: Counts, variance: {-1, 0, 1},
             first_seen: Times, last_seen: Times, anchor: Anchors,
             reason: {"TCP_FIN", "TCP_RESET", "TIMEOUT"}] :
     flow.first_seen <= flow.last_seen}

Optional(S) == {{}} \cup {{x} : x \in S}

\* Replies of whatever content.
StrayReplies ==
  [schema_version: Optional({1, 2, INT_VALUES + 1}), flow_id: Optional(FlowIds),
   model_version: Optional(ModelVersions), ok: Optional(BOOLEAN),
   error_code: Optional({"", "INVALID_FIELD"}), anomaly: Optional(BOOLEAN),
   score: Optional({-1} \cup Scores), threshold: Optional({-1, THRESHOLD})]

Idle == [stage |-> "idle"]

SendFlow ==
  /\ exchange = Idle
  /\ \E flow \in Flows, version \in ModelVersions :
       exchange' = [stage |-> "sent", flow |-> flow, expected |-> version]

\* The server at the socket path answers; it may have been started since with a new model.
ServerAnswersFlow ==
  /\ exchange.stage = "sent"
  /\ \E version \in ModelVersions, score \in Scores :
       exchange' = [stage |-> "answered", id |-> exchange.flow.flow_id,
                    expected |-> exchange.expected, by |-> version, score |-> score,
                    reply |-> ServerReply(serialize_flow_request(exchange.flow), version, score)]

StrayReplyArrives ==
  /\ exchange = Idle
  /\ \E id \in FlowIds, version \in ModelVersions, reply \in StrayReplies :
       exchange' = [stage |-> "stray", id |-> id, expected |-> version, reply |-> reply]

ProtocolInit == exchange = Idle
ProtocolNext == SendFlow \/ ServerAnswersFlow \/ StrayReplyArrives
ProtocolSpec == ProtocolInit /\ [][ProtocolNext]_exchange

-----------------------------------------------------------------------------
(***************************************************************************)
(* Properties.                                                             *)
(***************************************************************************)
Understood == parse_ai_response(exchange.reply, exchange.id, exchange.expected)

\* The features are where the model looks for them.
FeaturesInOrder ==
  exchange.stage = "sent" =>
    LET features == flow_to_features(exchange.flow)
    IN /\ Len(features) = Len(FEATURES)
       /\ \A i \in DOMAIN features : <<features[i][1], features[i][2]>> = FEATURES[i]

\* The server accepts every flow, and the client reads its judgement out of the reply; a
\* server with another model than the expected one is not listened to.
JudgementGetsThrough ==
  exchange.stage = "answered" =>
    Understood =
      IF exchange.by = exchange.expected
      THEN [some |-> TRUE, ok |-> TRUE, anomaly |-> {exchange.score > THRESHOLD},
            score |-> {exchange.score}]
      ELSE Refused

\* Nothing is read into a reply to another flow, of another model, or with parts missing.
\* What the reply has for a schema version is the business of OnlySchemaOne.
StrayReplyHarmless ==
  exchange.stage = "stray" /\ Understood.some =>
    /\ exchange.reply.flow_id = {exchange.id}
    /\ exchange.reply.model_version = {exchange.expected}
    /\ Understood.ok => /\ Understood.anomaly # {}
                        /\ \E s \in Understood.score : s >= 0

\* Sensor and server agree on the protocol: each flow the sensor can send is judged, by
\* the features the model was trained with, and no reply to another flow, of another
\* model or with parts missing is taken for a judgement.
ExchangeAgrees == FeaturesInOrder /\ JudgementGetsThrough /\ StrayReplyHarmless

\* The design of the protocol: the client uses a successful reply only when its
\* schema_version is 1.
OnlySchemaOne ==
  exchange.stage = "stray" /\ Understood.some /\ Understood.ok =>
    exchange.reply.schema_version = {1}
=============================================================================
