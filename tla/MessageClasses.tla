--------------------------- MODULE MessageClasses ---------------------------
(***************************************************************************)
(* The message classes that protoc generated from proto/ros_rpc.proto and  *)
(* proto/example.proto, as two tables read from two files.  The members of *)
(* a class are those its accessors in the .pb.h read and write; its wire   *)
(* format is the number and the kind of each field that the parser, the    *)
(* serializer, the size computation and the merge of the .pb.cc go         *)
(* through, in the order of the serializer.  The two must fit: nothing in  *)
(* the generated code compares them at run time.                           *)
(***************************************************************************)
EXTENDS Naturals, Sequences

(* The kind of a member: a scalar, one message, or a list of messages. *)
Scalar(type) == [type |-> type, of |-> "", repeated |-> FALSE]
One(class)   == [type |-> "message", of |-> class, repeated |-> FALSE]
Many(class)  == [type |-> "message", of |-> class, repeated |-> TRUE]

String == Scalar("string")
Bool   == Scalar("bool")
Int32  == Scalar("int32")
Int64  == Scalar("int64")
Float  == Scalar("float")

(* A field on the wire. *)
F(number, name, kind) == [number |-> number, name |-> name, kind |-> kind]

-----------------------------------------------------------------------------
(* Members, from ros_rpc.pb.h. *)

NodeInfo == [ip |-> String, port |-> Int32, node_name |-> String]
TopicTargetsUpdate ==
  [topic |-> String, add_targets |-> Many("NodeInfo"), remove_targets |-> Many("NodeInfo")]
TopicInfo == [topic_name |-> String, msg_type |-> String]

SubscribeRequest ==
  [topic_name |-> String, msg_type |-> String, node_info |-> One("NodeInfo")]
SubscribeResponse ==
  [success |-> Bool, message |-> String, node_info |-> Many("NodeInfo")]
RegisterPublisherRequest ==
  [topic_name |-> String, msg_type |-> String, node_info |-> One("NodeInfo")]
RegisterPublisherResponse == [success |-> Bool, message |-> String]
UnsubscribeRequest ==
  [topic_name |-> String, msg_type |-> String, node_info |-> One("NodeInfo")]
UnsubscribeResponse == [success |-> Bool, message |-> String]
UnregisterPublisherRequest ==
  [topic_name |-> String, msg_type |-> String, node_info |-> One("NodeInfo")]
UnregisterPublisherResponse == [success |-> Bool, message |-> String]

GetNodesRequest  == [filter |-> String]
GetNodesResponse ==
  [success |-> Bool, message |-> String, nodes |-> Many("NodeInfo")]
GetNodeInfoRequest  == [node_name |-> String]
GetNodeInfoResponse ==
  [success |-> Bool, message |-> String, node_info |-> One("NodeInfo"),
   publishes |-> Many("TopicInfo"), subscribes |-> Many("TopicInfo")]
GetTopicsRequest  == [filter |-> String]
GetTopicsResponse ==
  [success |-> Bool, message |-> String, topics |-> Many("TopicInfo")]
GetTopicInfoRequest  == [topic_name |-> String]
GetTopicInfoResponse ==
  [success |-> Bool, message |-> String, topic_name |-> String, msg_type |-> String,
   publishers |-> Many("NodeInfo"), subscribers |-> Many("NodeInfo")]

(* Members, from example.pb.h. *)

SensorData     == [sensor_id |-> Int32, value |-> Float, timestamp |-> Int64]
ControlCommand == [cmd_id |-> Int32, cmd |-> String]
Heartbeat      == [timestamp |-> Int64]

Members ==
  [NodeInfo                    |-> NodeInfo,
   TopicTargetsUpdate          |-> TopicTargetsUpdate,
   TopicInfo                   |-> TopicInfo,
   SubscribeRequest            |-> SubscribeRequest,
   SubscribeResponse           |-> SubscribeResponse,
   RegisterPublisherRequest    |-> RegisterPublisherRequest,
   RegisterPublisherResponse   |-> RegisterPublisherResponse,
   UnsubscribeRequest          |-> UnsubscribeRequest,
   UnsubscribeResponse         |-> UnsubscribeResponse,
   UnregisterPublisherRequest  |-> UnregisterPublisherRequest,
   UnregisterPublisherResponse |-> UnregisterPublisherResponse,
   GetNodesRequest             |-> GetNodesRequest,
   GetNodesResponse            |-> GetNodesResponse,
   GetNodeInfoRequest          |-> GetNodeInfoRequest,
   GetNodeInfoResponse         |-> GetNodeInfoResponse,
   GetTopicsRequest            |-> GetTopicsRequest,
   GetTopicsResponse           |-> GetTopicsResponse,
   GetTopicInfoRequest         |-> GetTopicInfoRequest,
   GetTopicInfoResponse        |-> GetTopicInfoResponse,
   SensorData                  |-> SensorData,
   ControlCommand              |-> ControlCommand,
   Heartbeat                   |-> Heartbeat]

AllClasses == DOMAIN Members

-----------------------------------------------------------------------------
(* Wire formats, from ros_rpc.pb.cc. *)

NodeInfoWire == <<F(1, "ip", String), F(2, "port", Int32), F(3, "node_name", String)>>
TopicTargetsUpdateWire ==
  <<F(1, "topic", String), F(2, "add_targets", Many("NodeInfo")),
    F(3, "remove_targets", Many("NodeInfo"))>>
TopicInfoWire == <<F(1, "topic_name", String), F(2, "msg_type", String)>>

(* Faulty variant: a number used twice. *)
SubscribeRequestClash ==
  <<F(1, "topic_name", String), F(1, "msg_type", String), F(3, "node_info", One("NodeInfo"))>>

SubscribeRequestWire ==
  <<F(1, "topic_name", String), F(2, "msg_type", String), F(3, "node_info", One("NodeInfo"))>>
SubscribeResponseWire ==
  <<F(1, "success", Bool), F(2, "message", String), F(3, "node_info", Many("NodeInfo"))>>
RegisterPublisherRequestWire ==
  <<F(1, "topic_name", String), F(2, "msg_type", String), F(3, "node_info", One("NodeInfo"))>>
RegisterPublisherResponseWire == <<F(1, "success", Bool), F(2, "message", String)>>
UnsubscribeRequestWire ==
  <<F(1, "topic_name", String), F(2, "msg_type", String), F(3, "node_info", One("NodeInfo"))>>
UnsubscribeResponseWire == <<F(1, "success", Bool), F(2, "message", String)>>
UnregisterPublisherRequestWire ==
  <<F(1, "topic_name", String), F(2, "msg_type", String), F(3, "node_info", One("NodeInfo"))>>
UnregisterPublisherResponseWire == <<F(1, "success", Bool), F(2, "message", String)>>

GetNodesRequestWire  == <<F(1, "filter", String)>>
GetNodesResponseWire ==
  <<F(1, "success", Bool), F(2, "message", String), F(3, "nodes", Many("NodeInfo"))>>
GetNodeInfoRequestWire  == <<F(1, "node_name", String)>>
GetNodeInfoResponseWire ==
  <<F(1, "success", Bool), F(2, "message", String), F(3, "node_info", One("NodeInfo")),
    F(4, "publishes", Many("TopicInfo")), F(5, "subscribes", Many("TopicInfo"))>>
GetTopicsRequestWire  == <<F(1, "filter", String)>>
GetTopicsResponseWire ==
  <<F(1, "success", Bool), F(2, "message", String), F(3, "topics", Many("TopicInfo"))>>
GetTopicInfoRequestWire  == <<F(1, "topic_name", String)>>
GetTopicInfoResponseWire ==
  <<F(1, "success", Bool), F(2, "message", String), F(3, "topic_name", String),
    F(4, "msg_type", String), F(5, "publishers", Many("NodeInfo")),
    F(6, "subscribers", Many("NodeInfo"))>>

(* Wire formats, from example.pb.cc. *)

SensorDataWire ==
  <<F(1, "sensor_id", Int32), F(2, "value", Float), F(3, "timestamp", Int64)>>
ControlCommandWire == <<F(1, "cmd_id", Int32), F(2, "cmd", String)>>
HeartbeatWire      == <<F(1, "timestamp", Int64)>>

Wire ==
  [NodeInfo                    |-> NodeInfoWire,
   TopicTargetsUpdate          |-> TopicTargetsUpdateWire,
   TopicInfo                   |-> TopicInfoWire,
   SubscribeRequest            |-> SubscribeRequestWire,
   SubscribeResponse           |-> SubscribeResponseWire,
   RegisterPublisherRequest    |-> RegisterPublisherRequestWire,
   RegisterPublisherResponse   |-> RegisterPublisherResponseWire,
   UnsubscribeRequest          |-> UnsubscribeRequestWire,
   UnsubscribeResponse         |-> UnsubscribeResponseWire,
   UnregisterPublisherRequest  |-> UnregisterPublisherRequestWire,
   UnregisterPublisherResponse |-> UnregisterPublisherResponseWire,
   GetNodesRequest             |-> GetNodesRequestWire,
   GetNodesResponse            |-> GetNodesResponseWire,
   GetNodeInfoRequest          |-> GetNodeInfoRequestWire,
   GetNodeInfoResponse         |-> GetNodeInfoResponseWire,
   GetTopicsRequest            |-> GetTopicsRequestWire,
   GetTopicsResponse           |-> GetTopicsResponseWire,
   GetTopicInfoRequest         |-> GetTopicInfoRequestWire,
   GetTopicInfoResponse        |-> GetTopicInfoResponseWire,
   SensorData                  |-> SensorDataWire,
   ControlCommand              |-> ControlCommandWire,
   Heartbeat                   |-> HeartbeatWire]
=============================================================================
