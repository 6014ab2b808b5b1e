----------------------------- MODULE SetupRequest -----------------------------
(***************************************************************************)
(* The loop in which a setup_http_server worker reads a request: bytes     *)
(* come in pieces of any size, each time the parser looks at all that is   *)
(* there, until it decides or the connection ends or times out.            *)
(***************************************************************************)
EXTENDS Provisioning

CONSTANTS
  Requests,   \* what browsers may send
  Entries     \* what people fill in, as configurations: UTF-8 text

ASSUME CapacityAssumption == capacity \in Nat \ {0}
ASSUME LimitAssumption ==
  /\ {MAX_SSID_LEN, MIN_PASSWORD_LEN, MAX_PASSWORD_LEN, MIN_TOKEN_LEN, MAX_TOKEN_LEN}
       \subseteq Nat \ {0}
  /\ MIN_PASSWORD_LEN <= MAX_PASSWORD_LEN
ASSUME NoneAssumption ==
  None \notin {"content-type", "content-length", "transfer-encoding"} \union Nat
ASSUME RequestAssumption ==
  \A r \in Requests :
    /\ r.header_end \in Nat \ {0} /\ r.body \in Seq(Units)
    /\ ~HeaderRefused(r) => body_length(r) \in Nat
ASSUME EntryAssumption ==
  \A config \in Entries :
    /\ config \in [ssid : Seq(Bytes), password : Seq(Bytes), token : Seq(Bytes)]
    /\ Utf8(config.ssid) /\ Utf8(config.password) /\ Utf8(config.token)

VARIABLES
  request,   \* what this connection's browser sends
  used,      \* how many bytes of it are in the buffer
  outcome,   \* parsed_request, or Undecided
  ended      \* history: read returned 0 or an error before the parser decided

requestVars == <<request, used, outcome, ended>>

Length(r) == r.header_end + Len(r.body)

\* What of the request the buffer has room for.
Room(r) == IF Length(r) < capacity THEN Length(r) ELSE capacity
-----------------------------------------------------------------------------
Init ==
  /\ request \in Requests
  /\ used = 0 /\ outcome = Undecided /\ ended = FALSE

\* socket.read returns a piece.
Read(length) ==
  /\ outcome = Undecided
  /\ used + length <= Room(request)
  /\ used' = used + length
  /\ outcome' = parse_request(request, used')
  /\ UNCHANGED <<request, ended>>

\* Seeded fault: the end of the stream is taken for a read of no bytes.
End_Ignored == outcome = Undecided /\ UNCHANGED requestVars

\* It returns 0, or an error: the peer is gone, or silent for three seconds.
\* (The loop also ends this way on a full buffer, which never happens: see
\* FullBufferIsDecided.)
End ==
  /\ outcome = Undecided
  /\ outcome' = BadRequest /\ ended' = TRUE
  /\ UNCHANGED <<request, used>>

\* The worker has answered and accepts the next connection.
Accept(r) ==
  /\ outcome # Undecided
  /\ request' = r
  /\ used' = 0 /\ outcome' = Undecided /\ ended' = FALSE

Next ==
  \/ \E length \in 1 .. capacity : Read(length)
  \/ End
  \/ \E r \in Requests : Accept(r)

\* A read returns: the socket's timeout ends one that gets nothing.
ReadReturns == End \/ \E length \in 1 .. capacity : Read(length)

Spec == Init /\ [][Next]_requestVars /\ WF_requestVars(ReadReturns)
-----------------------------------------------------------------------------
\* What the parser makes of the request when all of it that fits is there.
Whole(r) == parse_request(r, Room(r))

\* What the rest of the program takes for granted of a configuration: each
\* field fits its place in the record, the network can be joined with it, and
\* the token is one word, as the commands that carry it are split at spaces.
Storable(config) ==
  /\ ToSet(config.ssid) \union ToSet(config.password) \subseteq Bytes \ {"nul"}
  /\ Utf8(config.ssid) /\ Utf8(config.password)
  /\ config.ssid # <<>> /\ Len(config.ssid) <= MAX_SSID_LEN
  /\ config.password # <<>> => Len(config.password) \in MIN_PASSWORD_LEN .. MAX_PASSWORD_LEN
  /\ ToSet(config.token) \subseteq TokenBytes
  /\ Len(config.token) \in MIN_TOKEN_LEN .. MAX_TOKEN_LEN

(***************************************************************************)
(* The variables keep their types: nothing but a configuration that can be *)
(* stored and used is ever handed on to be saved.                          *)
(***************************************************************************)
RequestTypeOK ==
  /\ request \in Requests
  /\ used \in 0 .. Room(request)
  /\ ended \in BOOLEAN
  /\ \/ outcome \in {Undecided, ShowForm, NotFound, BadRequest}
     \/ outcome[1] = "save" /\ Storable(outcome[2])

(***************************************************************************)
(* The outcome does not depend on how the network cuts the request, nor on *)
(* what the buffer held before: a decision taken on a part of the request  *)
(* is the one that would be taken on all of it.                            *)
(***************************************************************************)
CutIndependent ==
  outcome \in {Undecided, Whole(request)} \/ (ended /\ outcome = BadRequest)

(***************************************************************************)
(* No request can fill the buffer and leave the parser waiting for more:   *)
(* a request that just fits is decided on what it says, and the refusal    *)
(* that the read loop keeps for a full buffer (main.rs, before each read)  *)
(* is never needed.                                                        *)
(***************************************************************************)
FullBufferIsDecided == outcome = Undecided => used < capacity

(***************************************************************************)
(* A browser encodes a form as application/x-www-form-urlencoded: letters, *)
(* digits, - and _ as they are, a space as +, anything else as an escape   *)
(* (but for * and ., which it leaves alone like letters).                  *)
(***************************************************************************)
Encoded(bytes) ==
  [i \in DOMAIN bytes |->
     IF bytes[i] = "space" THEN Raw("+")
     ELSE IF bytes[i] \in TokenBytes THEN Raw(bytes[i])
     ELSE Escape(bytes[i])]

Field(name, bytes) == <<Raw(name), Raw("=")>> \o Encoded(bytes)

Submission(config) ==
  Field("ssid", config.ssid) \o <<Raw("&")>> \o Field("password", config.password)
    \o <<Raw("&")>> \o Field("token", config.token)

\* The header of a form with a body of so many bytes, as a browser writes it.
FormHeader(length) ==
  << [name |-> "content-type", value |-> TRUE],
     [name |-> "content-length", value |-> length] >>

Submits(r, config) ==
  /\ r.blank_line /\ r.utf8 /\ r.line = "POST /save"
  /\ r.body = Submission(config)
  /\ r.headers = FormHeader(Len(r.body))

Acceptable(config) ==
  DeviceConfig_new(config) /\ "nul" \notin ToSet(config.ssid) \union ToSet(config.password)

(***************************************************************************)
(* The browser's form comes back as it was filled in: an acceptable        *)
(* configuration that fits the buffer is saved, byte for byte, and one     *)
(* that is not acceptable is refused, whatever bytes its fields hold.      *)
(***************************************************************************)
FormRoundTrip ==
  \A config \in Entries :
    Submits(request, config) /\ Length(request) <= capacity /\ ~ended
      => outcome \in {Undecided,
                      IF Acceptable(config) THEN Save(config) ELSE BadRequest}

(***************************************************************************)
(* A worker that has accepted a connection gets to an answer: no request,  *)
(* cut or short or silent, keeps it reading for ever.                      *)
(***************************************************************************)
EveryRequestDecided == outcome = Undecided ~> outcome # Undecided
=============================================================================
