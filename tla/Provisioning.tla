----------------------------- MODULE Provisioning -----------------------------
(***************************************************************************)
(* The parser of the setup page's requests (provisioning.rs) and the rules *)
(* of a configuration (DeviceConfig::new in config.rs).                    *)
(*                                                                         *)
(* A request is what the browser has to send: a header of so many bytes,   *)
(* whether its blank line is there, what its lines say, and the body, unit *)
(* by unit.  A unit is a byte or a percent escape of one; a byte is told   *)
(* apart only where the parser does.  An escape that is cut short, that is *)
(* not hexadecimal, or a lone %, is Broken.  Lengths count units.  What    *)
(* kind of error is found only decides what is printed, so that all of     *)
(* them are one outcome, the page BAD_REQUEST.                             *)
(***************************************************************************)
EXTENDS Naturals, SequencesExt

CONSTANTS
  None,
  capacity,            \* request_buffer.len()
  MAX_SSID_LEN, MIN_PASSWORD_LEN, MAX_PASSWORD_LEN,
  MIN_TOKEN_LEN, MAX_TOKEN_LEN

\* "hex" is a hexadecimal digit, "word" another letter or digit, - or _,
\* "mark" any other ASCII byte; "lead" and "cont" make a character of two bytes.
Bytes == {"hex", "word", "mark", "space", "nul", "lead", "cont", "+", "&", "="}
FieldNames == {"ssid", "password", "token"}

\* A name is one unit as well, "other" any name that is no field's.
Units ==
  [escaped : BOOLEAN, byte : Bytes \union FieldNames \union {"other", "broken"}]

Raw(byte) == [escaped |-> FALSE, byte |-> byte]
Escape(byte) == [escaped |-> TRUE, byte |-> byte]
Broken == Escape("broken")

\* The outcomes of parse_request: Ok(None), the three requests, any error.
Undecided == <<"undecided">>
ShowForm == <<"form">>
NotFound == <<"not_found">>
BadRequest == <<"bad_request">>
Save(config) == <<"save", config>>

TokenBytes == {"hex", "word"}
-----------------------------------------------------------------------------
\* str::from_utf8 accepts these bytes.
Utf8(bytes) ==
  \A i \in DOMAIN bytes :
    /\ bytes[i] = "lead" => i < Len(bytes) /\ bytes[i + 1] = "cont"
    /\ bytes[i] = "cont" => i > 1 /\ bytes[i - 1] = "lead"

\* Seeded fault: the lower bounds are forgotten.
DeviceConfig_new_AnyLength(config) ==
  /\ Len(config.ssid) \in 0 .. MAX_SSID_LEN
  /\ Len(config.password) \in 0 .. MAX_PASSWORD_LEN
  /\ Len(config.token) \in 0 .. MAX_TOKEN_LEN

\* DeviceConfig::new accepts these values.
DeviceConfig_new(config) ==
  /\ Len(config.ssid) \in 1 .. MAX_SSID_LEN
  /\ \/ Len(config.password) \in {0} \union (MIN_PASSWORD_LEN .. MAX_PASSWORD_LEN - 1)
     \/ Len(config.password) = MAX_PASSWORD_LEN /\ ToSet(config.password) \subseteq {"hex"}
  /\ Len(config.token) \in MIN_TOKEN_LEN .. MAX_TOKEN_LEN
  /\ ToSet(config.token) \subseteq TokenBytes

\* Seeded fault: + is taken for itself.
DecodedByte_PlusStays(unit) == unit.byte

\* decode_component: one unit of a value.
DecodedByte(unit) == IF unit = Raw("+") THEN "space" ELSE unit.byte

decoded(value) == [i \in DOMAIN value |-> DecodedByte(value[i])]

\* decode_component::<limit> returns Ok, with decoded(value).
decode_component(value, limit) ==
  /\ \A i \in DOMAIN value : DecodedByte(value[i]) \in Bytes \ {"nul"}
  /\ Len(value) <= limit
  /\ Utf8(decoded(value))

\* body.split('&'): a field is what lies between two neighbouring stops.
Stops(body) == {0, Len(body) + 1} \union {i \in DOMAIN body : body[i] = Raw("&")}

Fields(body) ==
  {field \in Stops(body) \X Stops(body) :
     /\ field[1] < field[2]
     /\ \A i \in Stops(body) : i <= field[1] \/ field[2] <= i}

\* field.split_once('=') gives this name.  A name is one unit, and not decoded.
IsNamed(body, field, name) ==
  /\ field[1] + 2 < field[2]
  /\ body[field[1] + 1] = Raw(name) /\ body[field[1] + 2] = Raw("=")

\* The value of the field of this name.
ValueOf(body, name) ==
  LET field == CHOOSE field \in Fields(body) : IsNamed(body, field, name)
  IN SubSeq(body, field[1] + 3, field[2] - 1)

\* Each of the three fields is there once, nothing else is, and each decodes.
IsForm(body) ==
  /\ \A field \in Fields(body) : \E name \in FieldNames : IsNamed(body, field, name)
  /\ \A name \in FieldNames : \E field \in Fields(body) :
       \A other \in Fields(body) : IsNamed(body, other, name) <=> other = field
  /\ decode_component(ValueOf(body, "ssid"), MAX_SSID_LEN)
  /\ decode_component(ValueOf(body, "password"), MAX_PASSWORD_LEN)
  /\ decode_component(ValueOf(body, "token"), MAX_TOKEN_LEN)

FormConfig(body) ==
  [ssid |-> decoded(ValueOf(body, "ssid")),
   password |-> decoded(ValueOf(body, "password")),
   token |-> decoded(ValueOf(body, "token"))]

\* The body as text: an escape is ASCII.
Text(body) == [i \in DOMAIN body |-> IF body[i].escaped THEN "mark" ELSE body[i].byte]

parse_form(body) ==
  IF Utf8(Text(body)) /\ IsForm(body) /\ DeviceConfig_new(FormConfig(body))
  THEN Save(FormConfig(body))
  ELSE BadRequest
-----------------------------------------------------------------------------
\* A header line: its name, None without a colon; for Content-Length its
\* number, None if it does not parse; for Content-Type whether it is a form.
Lines(request, name) ==
  {i \in DOMAIN request.headers : request.headers[i].name = name}

\* The header of POST /save is refused at once.
HeaderRefused(request) ==
  \/ Lines(request, None) # {} \/ Lines(request, "transfer-encoding") # {}
  \/ \A i \in DOMAIN request.headers :
       Lines(request, "content-length") = {i} => request.headers[i].value = None

body_length(request) ==
  LET i == CHOOSE i \in DOMAIN request.headers : Lines(request, "content-length") = {i}
  IN request.headers[i].value

\* The last Content-Type counts.
valid_content_type(request) ==
  \E i \in Lines(request, "content-type") :
    /\ \A j \in Lines(request, "content-type") : j <= i
    /\ request.headers[i].value

total_length(request) == request.header_end + body_length(request)

\* The body as far as its Content-Length goes.
Body(request) == SubSeq(request.body, 1, body_length(request))

\* Seeded fault: the form is parsed as soon as the header is there.
parse_post_Early(request, length) ==
  IF HeaderRefused(request) \/ total_length(request) > capacity THEN BadRequest
  ELSE IF ~valid_content_type(request) THEN BadRequest
  ELSE parse_form(SubSeq(request.body, 1, length - request.header_end))

\* Seeded fault: a request longer than the buffer is waited for.
parse_post_Unbounded(request, length) ==
  IF HeaderRefused(request) THEN BadRequest
  ELSE IF length < total_length(request) THEN Undecided
  ELSE IF ~valid_content_type(request) THEN BadRequest
  ELSE parse_form(Body(request))

\* POST /save, of which length bytes are there, the header among them.
parse_post(request, length) ==
  IF HeaderRefused(request) \/ total_length(request) > capacity THEN BadRequest
  ELSE IF length < total_length(request) THEN Undecided
  ELSE IF ~valid_content_type(request) THEN BadRequest
  ELSE parse_form(Body(request))

\* find_bytes finds the blank line in the first length bytes.
HeaderArrived(request, length) == request.blank_line /\ request.header_end <= length

\* parse_request of the first length bytes.
parse_request(request, length) ==
  IF ~HeaderArrived(request, length)
  THEN IF length = capacity THEN BadRequest ELSE Undecided
  ELSE IF ~request.utf8 THEN BadRequest
  ELSE IF request.line = "GET /" THEN ShowForm
  ELSE IF request.line = "POST /save" THEN parse_post(request, length)
  ELSE NotFound
=============================================================================
