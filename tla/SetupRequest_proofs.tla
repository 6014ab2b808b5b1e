------------------------- MODULE SetupRequest_proofs -------------------------
(***************************************************************************)
(* The setup form, for every set of requests and forms and every buffer.   *)
(* A request's outcome does not depend on where the network cuts it, and   *)
(* no request leaves a full buffer undecided: parse_request decides for    *)
(* good as soon as it decides.  What a worker hands over to be saved is a  *)
(* configuration that can be stored, and what was typed into a form is     *)
(* what is saved: decoding inverts the browsers' encoding, and the pieces  *)
(* of a submission are the fields of its form.                             *)
(***************************************************************************)
EXTENDS SetupRequest, SequenceTheorems, TLAPS

LEMMA RoomIsBounded ==
  ASSUME NEW r \in Requests
  PROVE  /\ Room(r) \in Nat
         /\ Room(r) <= capacity
BY CapacityAssumption, RequestAssumption DEF Room, Length

\* A form that is parsed is decided.
LEMMA FormDecided ==
  ASSUME NEW body
  PROVE  parse_form(body) # Undecided
<1>1. BadRequest # Undecided
  BY DEF BadRequest, Undecided
<1>2. Save(FormConfig(body)) # Undecided
  BY DEF Save, Undecided
<1> QED BY <1>1, <1>2 DEF parse_form

\* A decision about POST /save is not changed by what comes after it.
LEMMA PostStands ==
  ASSUME NEW r \in Requests, NEW n \in Nat, NEW m \in Nat, n <= m,
         parse_post(r, n) # Undecided
  PROVE  parse_post(r, m) = parse_post(r, n)
<1>1. CASE HeaderRefused(r) \/ total_length(r) > capacity
  BY <1>1 DEF parse_post
<1>2. CASE ~(HeaderRefused(r) \/ total_length(r) > capacity)
  <2>1. total_length(r) \in Nat
    BY <1>2, RequestAssumption DEF total_length
  <2>2. ~(n < total_length(r))
    BY <1>2 DEF parse_post
  <2>3. ~(m < total_length(r))
    BY <2>1, <2>2
  <2> QED BY <1>2, <2>2, <2>3 DEF parse_post
<1> QED BY <1>1, <1>2

\* A decision about any request is not changed by what comes after it.
LEMMA DecisionStands ==
  ASSUME NEW r \in Requests, NEW n \in Nat, NEW m \in Nat, n <= m, m <= capacity,
         parse_request(r, n) # Undecided
  PROVE  parse_request(r, m) = parse_request(r, n)
<1>1. CASE HeaderArrived(r, n)
  <2>1. HeaderArrived(r, m)
    BY <1>1, RequestAssumption DEF HeaderArrived
  <2>2. CASE r.utf8 /\ r.line # "GET /" /\ r.line = "POST /save"
    <3>1. parse_request(r, n) = parse_post(r, n) /\ parse_request(r, m) = parse_post(r, m)
      BY <1>1, <2>1, <2>2 DEF parse_request
    <3> QED BY <3>1, PostStands
  <2>3. CASE ~(r.utf8 /\ r.line # "GET /" /\ r.line = "POST /save")
    BY <1>1, <2>1, <2>3 DEF parse_request
  <2> QED BY <2>2, <2>3
<1>2. CASE ~HeaderArrived(r, n)
  <2>1. n = capacity
    BY <1>2 DEF parse_request
  <2>2. m = n
    BY <2>1, CapacityAssumption
  <2> QED BY <2>2
<1> QED BY <1>1, <1>2

\* The parser decides on a full buffer.
LEMMA FullIsDecided ==
  ASSUME NEW r \in Requests
  PROVE  parse_request(r, capacity) # Undecided
<1>1. BadRequest # Undecided /\ ShowForm # Undecided /\ NotFound # Undecided
  BY DEF BadRequest, ShowForm, NotFound, Undecided
<1>2. parse_post(r, capacity) # Undecided
  <2>1. CASE HeaderRefused(r) \/ total_length(r) > capacity
    BY <1>1, <2>1 DEF parse_post
  <2>2. CASE ~(HeaderRefused(r) \/ total_length(r) > capacity)
    <3>1. total_length(r) \in Nat
      BY <2>2, RequestAssumption DEF total_length
    <3>2. ~(capacity < total_length(r))
      BY <2>2, <3>1, CapacityAssumption
    <3> QED BY <1>1, <2>2, <3>2, FormDecided DEF parse_post
  <2> QED BY <2>1, <2>2
<1> QED BY <1>1, <1>2 DEF parse_request
-----------------------------------------------------------------------------
\* A field's value is a part of the body.
LEMMA ValueIsText ==
  ASSUME NEW body \in Seq(Units), IsForm(body), NEW name \in FieldNames
  PROVE  ValueOf(body, name) \in Seq(Units)
<1> DEFINE field == CHOOSE field \in Fields(body) : IsNamed(body, field, name)
           named(other) == IsNamed(body, other, name)
<1>1. \E other \in Fields(body) : named(other)
  BY DEF IsForm
<1>2. field \in Fields(body) /\ named(field)
  BY <1>1
<1> HIDE DEF field
<1>3. field[1] \in Stops(body) /\ field[2] \in Stops(body)
  BY <1>2 DEF Fields
<1>4. Len(body) \in Nat /\ DOMAIN body = 1 .. Len(body)
  OBVIOUS
<1>5. /\ field[1] \in 0 .. Len(body) + 1
      /\ field[2] \in 0 .. Len(body) + 1
  BY <1>3, <1>4 DEF Stops
<1>6. \A i \in field[1] + 3 .. field[2] - 1 : body[i] \in Units
  <2> SUFFICES ASSUME NEW i \in field[1] + 3 .. field[2] - 1 PROVE body[i] \in Units
    OBVIOUS
  <2>1. i \in 1 .. Len(body)
    BY <1>4, <1>5
  <2> QED BY <2>1
<1>7. field[1] + 3 \in Int /\ field[2] - 1 \in Int
  BY <1>4, <1>5
<1>8. SubSeq(body, field[1] + 3, field[2] - 1) \in Seq(Units)
  BY <1>6, <1>7, SubSeqProperties
<1> QED BY <1>8 DEF ValueOf, field

\* A value that decodes is text without a zero byte, of as many bytes as it
\* has units.
LEMMA DecodedValue ==
  ASSUME NEW value \in Seq(Units), NEW limit, decode_component(value, limit)
  PROVE  /\ decoded(value) \in Seq(Bytes \ {"nul"})
         /\ Len(decoded(value)) = Len(value) /\ Len(value) <= limit
         /\ Utf8(decoded(value))
<1>1. Len(value) \in Nat /\ DOMAIN value = 1 .. Len(value)
  OBVIOUS
<1>2. \A i \in 1 .. Len(value) : DecodedByte(value[i]) \in Bytes \ {"nul"}
  BY <1>1 DEF decode_component
<1>3. decoded(value) = [i \in 1 .. Len(value) |-> DecodedByte(value[i])]
  BY <1>1 DEF decoded
<1>4. decoded(value) \in Seq(Bytes \ {"nul"})
  BY <1>1, <1>2, <1>3
<1>5. Len(decoded(value)) = Len(value)
  BY <1>1, <1>3, <1>4
<1> QED BY <1>4, <1>5 DEF decode_component

\* The elements of a sequence.
LEMMA ToSetOfSeq ==
  ASSUME NEW S, NEW s \in Seq(S)
  PROVE  ToSet(s) \subseteq S
BY DEF ToSet

\* What parse_form accepts can be stored and used.
LEMMA FormIsStorable ==
  ASSUME NEW body \in Seq(Units), parse_form(body) # BadRequest
  PROVE  parse_form(body) = Save(FormConfig(body)) /\ Storable(FormConfig(body))
<1> DEFINE ssid == ValueOf(body, "ssid")
           password == ValueOf(body, "password")
           token == ValueOf(body, "token")
           config == FormConfig(body)
<1>1. IsForm(body) /\ DeviceConfig_new(config) /\ parse_form(body) = Save(config)
  BY DEF parse_form
<1>2. ssid \in Seq(Units) /\ password \in Seq(Units) /\ token \in Seq(Units)
  BY <1>1, ValueIsText DEF FieldNames
<1>3. /\ config.ssid = decoded(ssid)
      /\ config.password = decoded(password)
      /\ config.token = decoded(token)
  BY DEF FormConfig
<1>4. /\ decode_component(ssid, MAX_SSID_LEN)
      /\ decode_component(password, MAX_PASSWORD_LEN)
  BY <1>1 DEF IsForm
<1> HIDE DEF config, ssid, password, token
<1>5. /\ config.ssid \in Seq(Bytes \ {"nul"}) /\ Utf8(config.ssid)
      /\ config.password \in Seq(Bytes \ {"nul"}) /\ Utf8(config.password)
  BY <1>2, <1>3, <1>4, DecodedValue
<1>6. /\ ToSet(config.ssid) \subseteq Bytes \ {"nul"}
      /\ ToSet(config.password) \subseteq Bytes \ {"nul"}
  BY <1>5, ToSetOfSeq
<1>7. Len(config.ssid) \in Nat /\ Len(config.password) \in Nat
  BY <1>5
<1>8. config.ssid # <<>> /\ Len(config.ssid) <= MAX_SSID_LEN
  <2>1. Len(config.ssid) \in 1 .. MAX_SSID_LEN
    BY <1>1 DEF DeviceConfig_new
  <2>2. Len(<<>>) = 0
    OBVIOUS
  <2> QED BY <2>1, <2>2, LimitAssumption
<1>9. ASSUME config.password # <<>>
      PROVE  Len(config.password) \in MIN_PASSWORD_LEN .. MAX_PASSWORD_LEN
  <2>1. Len(config.password) # 0
    BY <1>5, <1>9
  <2>2. \/ Len(config.password) \in MIN_PASSWORD_LEN .. MAX_PASSWORD_LEN - 1
        \/ Len(config.password) = MAX_PASSWORD_LEN
    BY <1>1, <2>1 DEF DeviceConfig_new
  <2> QED BY <1>7, <2>2, LimitAssumption
<1>10. /\ Len(config.token) \in MIN_TOKEN_LEN .. MAX_TOKEN_LEN
       /\ ToSet(config.token) \subseteq TokenBytes
  BY <1>1 DEF DeviceConfig_new
<1>11. Storable(config)
  BY <1>5, <1>6, <1>8, <1>9, <1>10 DEF Storable
<1> QED BY <1>1, <1>11 DEF config

\* The outcome of a request is one of the five.
LEMMA RequestOutcome ==
  ASSUME NEW r \in Requests, NEW n \in Nat, n <= Room(r)
  PROVE  \/ parse_request(r, n) \in {Undecided, ShowForm, NotFound, BadRequest}
         \/ parse_request(r, n) = parse_form(Body(r)) /\ Body(r) \in Seq(Units)
<1>1. CASE r.line = "POST /save"
  <2>1. CASE /\ ~HeaderRefused(r) /\ ~(total_length(r) > capacity)
             /\ ~(n < total_length(r)) /\ valid_content_type(r)
    <3>1. body_length(r) \in Nat /\ r.header_end \in Nat /\ Len(r.body) \in Nat
      BY <2>1, RequestAssumption
    <3>2. n <= r.header_end + Len(r.body)
      BY <3>1, CapacityAssumption DEF Room, Length
    <3>3. body_length(r) <= Len(r.body)
      BY <2>1, <3>1, <3>2 DEF total_length
    <3>4. \A i \in 1 .. body_length(r) : r.body[i] \in Units
      BY <3>1, <3>3, RequestAssumption
    <3>5. Body(r) \in Seq(Units)
      BY <3>1, <3>4, SubSeqProperties DEF Body
    <3>6. parse_post(r, n) = parse_form(Body(r))
      BY <2>1 DEF parse_post
    <3> QED BY <3>5, <3>6 DEF parse_request
  <2>2. CASE ~(/\ ~HeaderRefused(r) /\ ~(total_length(r) > capacity)
               /\ ~(n < total_length(r)) /\ valid_content_type(r))
    <3>1. parse_post(r, n) \in {Undecided, BadRequest}
      BY <2>2 DEF parse_post
    <3> QED BY <3>1 DEF parse_request
  <2> QED BY <2>1, <2>2
<1>2. CASE r.line # "POST /save"
  BY <1>2 DEF parse_request
<1> QED BY <1>1, <1>2
-----------------------------------------------------------------------------
\* What a browser makes of a value decodes to that value, and neither ends its
\* field nor looks like a part of a longer character.
LEMMA EncodedValue ==
  ASSUME NEW v \in Seq(Bytes)
  PROVE  /\ Encoded(v) \in Seq(Units)
         /\ Len(Encoded(v)) = Len(v)
         /\ \A i \in 1 .. Len(v) :
              /\ Encoded(v)[i] # Raw("&")
              /\ Encoded(v)[i].escaped \/ Encoded(v)[i].byte \notin {"lead", "cont"}
         /\ decoded(Encoded(v)) = v
<1> DEFINE unit(byte) == IF byte = "space" THEN Raw("+")
                         ELSE IF byte \in TokenBytes THEN Raw(byte)
                         ELSE Escape(byte)
<1>1. ASSUME NEW byte \in Bytes
      PROVE  /\ unit(byte) \in Units /\ unit(byte) # Raw("&")
             /\ unit(byte).escaped \/ unit(byte).byte \notin {"lead", "cont"}
             /\ DecodedByte(unit(byte)) = byte
  <2>1. CASE byte = "space"
    BY <2>1 DEF Raw, Units, Bytes, DecodedByte
  <2>2. CASE byte # "space" /\ byte \in TokenBytes
    BY <2>2 DEF Raw, Units, Bytes, DecodedByte, TokenBytes
  <2>3. CASE byte # "space" /\ byte \notin TokenBytes
    BY <2>3 DEF Raw, Escape, Units, Bytes, DecodedByte, TokenBytes
  <2> QED BY <2>1, <2>2, <2>3
<1>2. Len(v) \in Nat /\ DOMAIN v = 1 .. Len(v) /\ \A i \in 1 .. Len(v) : v[i] \in Bytes
  OBVIOUS
<1>3. Encoded(v) = [i \in 1 .. Len(v) |-> unit(v[i])]
  BY <1>2 DEF Encoded
<1> HIDE DEF unit
<1>4. Encoded(v) \in Seq(Units) /\ Len(Encoded(v)) = Len(v)
  <2>1. Encoded(v) \in Seq(Units)
    BY <1>1, <1>2, <1>3
  <2> QED BY <1>2, <1>3, <2>1
<1>5. \A i \in 1 .. Len(v) : Encoded(v)[i] = unit(v[i])
  BY <1>3
<1>6. decoded(Encoded(v)) = v
  <2>1. DOMAIN Encoded(v) = 1 .. Len(v)
    BY <1>3
  <2>2. decoded(Encoded(v)) = [i \in 1 .. Len(v) |-> DecodedByte(Encoded(v)[i])]
    BY <2>1 DEF decoded
  <2>3. \A i \in 1 .. Len(v) : DecodedByte(Encoded(v)[i]) = v[i]
    BY <1>1, <1>2, <1>5
  <2>4. v = [i \in 1 .. Len(v) |-> v[i]]
    BY <1>2
  <2> QED BY <2>2, <2>3, <2>4
<1> QED BY <1>1, <1>2, <1>4, <1>5, <1>6

\* A value is decoded without error if it is short enough, text, and without a
\* zero byte.
LEMMA EncodedDecodes ==
  ASSUME NEW v \in Seq(Bytes), NEW limit \in Nat, Utf8(v)
  PROVE  decode_component(Encoded(v), limit)
           <=> Len(v) <= limit /\ "nul" \notin ToSet(v)
<1>1. /\ Encoded(v) \in Seq(Units) /\ Len(Encoded(v)) = Len(v)
      /\ decoded(Encoded(v)) = v
  BY EncodedValue
<1>2. DOMAIN Encoded(v) = 1 .. Len(v) /\ DOMAIN v = 1 .. Len(v)
  BY <1>1
<1>3. \A i \in 1 .. Len(v) : DecodedByte(Encoded(v)[i]) = v[i]
  BY <1>1, <1>2 DEF decoded
<1>4. (\A i \in 1 .. Len(v) : DecodedByte(Encoded(v)[i]) \in Bytes \ {"nul"})
        <=> "nul" \notin ToSet(v)
  BY <1>2, <1>3 DEF ToSet
<1> QED BY <1>1, <1>2, <1>4 DEF decode_component

\* Where the parts of a concatenation are.
LEMMA ConcatAt ==
  ASSUME NEW S, NEW s \in Seq(S), NEW t \in Seq(S)
  PROVE  /\ s \o t \in Seq(S)
         /\ Len(s \o t) = Len(s) + Len(t)
         /\ \A i \in 1 .. Len(s) : (s \o t)[i] = s[i]
         /\ \A i \in 1 .. Len(t) : (s \o t)[Len(s) + i] = t[i]
<1>1. Len(s) \in Nat /\ Len(t) \in Nat
  OBVIOUS
<1>2. /\ s \o t \in Seq(S)
      /\ Len(s \o t) = Len(s) + Len(t)
      /\ \A i \in 1 .. Len(s) + Len(t) :
           (s \o t)[i] = IF i <= Len(s) THEN s[i] ELSE t[i - Len(s)]
  BY ConcatProperties
<1>3. ASSUME NEW i \in 1 .. Len(s) PROVE (s \o t)[i] = s[i]
  <2>1. i \in 1 .. Len(s) + Len(t) /\ i <= Len(s)
    BY <1>1
  <2> QED BY <1>2, <2>1
<1>4. ASSUME NEW i \in 1 .. Len(t) PROVE (s \o t)[Len(s) + i] = t[i]
  <2>1. /\ Len(s) + i \in 1 .. Len(s) + Len(t) /\ ~(Len(s) + i <= Len(s))
        /\ (Len(s) + i) - Len(s) = i
    BY <1>1
  <2>2. (s \o t)[Len(s) + i] = t[(Len(s) + i) - Len(s)]
    BY <1>2, <2>1
  <2> QED BY <2>1, <2>2
<1> QED BY <1>2, <1>3, <1>4

\* A part of a sequence that holds another one is that other one.
LEMMA PartIs ==
  ASSUME NEW S, NEW body \in Seq(S), NEW part \in Seq(S), NEW start, start \in Nat,
         start + Len(part) <= Len(body),
         \A i \in 1 .. Len(part) : body[start + i] = part[i]
  PROVE  SubSeq(body, start + 1, start + Len(part)) = part
<1>1. Len(part) \in Nat /\ Len(body) \in Nat
  OBVIOUS
<1>2. \A i \in start + 1 .. start + Len(part) : body[i] \in S
  <2> SUFFICES ASSUME NEW i \in start + 1 .. start + Len(part) PROVE body[i] \in S
    OBVIOUS
  <2>1. i \in 1 .. Len(body)
    BY <1>1
  <2> QED BY <2>1
<1>3. start + 1 \in Int /\ start + Len(part) \in Int
  BY <1>1
<1> DEFINE taken == SubSeq(body, start + 1, start + Len(part))
<1>4. /\ taken \in Seq(S)
      /\ Len(taken) = IF start + 1 <= start + Len(part)
                      THEN (start + Len(part)) - (start + 1) + 1 ELSE 0
      /\ \A i \in 1 .. (start + Len(part)) - (start + 1) + 1 :
           taken[i] = body[(start + 1) + i - 1]
  BY <1>2, <1>3, SubSeqProperties
<1> HIDE DEF taken
<1>5. Len(taken) = Len(part)
  BY <1>1, <1>4
<1>6. ASSUME NEW i \in 1 .. Len(part) PROVE taken[i] = part[i]
  <2>1. /\ i \in 1 .. (start + Len(part)) - (start + 1) + 1
        /\ (start + 1) + i - 1 = start + i
    BY <1>1
  <2>2. taken[i] = body[start + i]
    BY <1>4, <2>1
  <2> QED BY <2>2
<1>7. taken = part
  BY <1>4, <1>5, <1>6, SeqEqual
<1> QED BY <1>7 DEF taken

\* The same, with the length of the part by its name.
LEMMA UnitsAre ==
  ASSUME NEW body, NEW part, NEW start, NEW length,
         body \in Seq(Units), part \in Seq(Units), start \in Nat,
         Len(part) = length, start + length <= Len(body),
         \A i \in 1 .. length : body[start + i] = part[i]
  PROVE  SubSeq(body, start + 1, start + length) = part
BY PartIs

\* A field starts with its name and = and goes on with what its value encodes to.
LEMMA FieldText ==
  ASSUME NEW name \in FieldNames, NEW v \in Seq(Bytes)
  PROVE  /\ Field(name, v) \in Seq(Units)
         /\ Len(Field(name, v)) = Len(v) + 2
         /\ Field(name, v)[1] = Raw(name) /\ Field(name, v)[2] = Raw("=")
         /\ \A i \in 1 .. Len(v) : Field(name, v)[i + 2] = Encoded(v)[i]
         /\ \A i \in 1 .. Len(v) + 2 :
              /\ Field(name, v)[i] # Raw("&")
              /\ \/ Field(name, v)[i].escaped
                 \/ Field(name, v)[i].byte \notin {"lead", "cont"}
<1> DEFINE head == <<Raw(name), Raw("=")>>
<1>1. /\ Raw(name) \in Units /\ Raw("=") \in Units
      /\ Raw(name) # Raw("&") /\ Raw("=") # Raw("&")
      /\ Raw(name).byte \notin {"lead", "cont"} /\ Raw("=").byte \notin {"lead", "cont"}
  BY DEF Raw, Units, Bytes, FieldNames
<1>2. head \in Seq(Units) /\ Len(head) = 2 /\ head[1] = Raw(name) /\ head[2] = Raw("=")
  BY <1>1
<1>3. /\ Encoded(v) \in Seq(Units) /\ Len(Encoded(v)) = Len(v) /\ Len(v) \in Nat
      /\ \A i \in 1 .. Len(v) :
           /\ Encoded(v)[i] # Raw("&")
           /\ Encoded(v)[i].escaped \/ Encoded(v)[i].byte \notin {"lead", "cont"}
  BY EncodedValue
<1>4. Field(name, v) = head \o Encoded(v)
  BY DEF Field
<1> HIDE DEF head
<1>5. /\ Field(name, v) \in Seq(Units)
      /\ Len(Field(name, v)) = 2 + Len(v)
      /\ \A i \in 1 .. 2 : Field(name, v)[i] = head[i]
      /\ \A i \in 1 .. Len(v) : Field(name, v)[2 + i] = Encoded(v)[i]
  <2> DEFINE text == head \o Encoded(v)
  <2>1. head \in Seq(Units) /\ Encoded(v) \in Seq(Units)
    BY <1>2, <1>3
  <2>2. /\ text \in Seq(Units) /\ Len(text) = Len(head) + Len(Encoded(v))
        /\ \A i \in 1 .. Len(head) : text[i] = head[i]
        /\ \A i \in 1 .. Len(Encoded(v)) : text[Len(head) + i] = Encoded(v)[i]
    BY <2>1, ConcatAt
  <2> HIDE DEF text
  <2> QED BY <1>2, <1>3, <1>4, <2>2 DEF text
<1>6. Field(name, v)[1] = Raw(name) /\ Field(name, v)[2] = Raw("=")
  BY <1>2, <1>5
<1>7. \A i \in 1 .. Len(v) : Field(name, v)[i + 2] = Encoded(v)[i]
  <2> SUFFICES ASSUME NEW i \in 1 .. Len(v) PROVE Field(name, v)[i + 2] = Encoded(v)[i]
    OBVIOUS
  <2>1. i + 2 = 2 + i
    BY <1>3
  <2> QED BY <1>5, <2>1
<1>8. ASSUME NEW i \in 1 .. Len(v) + 2
      PROVE  /\ Field(name, v)[i] # Raw("&")
             /\ \/ Field(name, v)[i].escaped
                \/ Field(name, v)[i].byte \notin {"lead", "cont"}
  <2>1. CASE i \in {1, 2}
    BY <1>1, <1>6, <2>1
  <2>2. CASE i \notin {1, 2}
    <3>1. i - 2 \in 1 .. Len(v) /\ (i - 2) + 2 = i
      BY <1>3, <2>2
    <3>2. Field(name, v)[i] = Encoded(v)[i - 2]
      BY <1>7, <3>1
    <3> QED BY <1>3, <3>1, <3>2
  <2> QED BY <2>1, <2>2
<1>9. Len(Field(name, v)) = Len(v) + 2
  BY <1>3, <1>5
<1> QED BY <1>5, <1>6, <1>7, <1>8, <1>9

\* Three texts with an ampersand after the first two.
ThreeTexts(f, g, h) == f \o <<Raw("&")>> \o g \o <<Raw("&")>> \o h

\* Where they are in it.
Placed(text, f, g, h) ==
  /\ text \in Seq(Units)
  /\ Len(text) = (Len(f) + 1 + Len(g) + 1) + Len(h)
  /\ \A i \in 1 .. Len(f) : text[i] = f[i]
  /\ text[Len(f) + 1] = Raw("&")
  /\ \A i \in 1 .. Len(g) : text[(Len(f) + 1) + i] = g[i]
  /\ text[Len(f) + 1 + Len(g) + 1] = Raw("&")
  /\ \A i \in 1 .. Len(h) : text[(Len(f) + 1 + Len(g) + 1) + i] = h[i]

LEMMA ThreeTextsPlaced ==
  ASSUME NEW f \in Seq(Units), NEW g \in Seq(Units), NEW h \in Seq(Units)
  PROVE  Placed(ThreeTexts(f, g, h), f, g, h)
<1> DEFINE and == <<Raw("&")>>
           a == f \o and
           b == a \o g
           c == b \o and
           s == c \o h
           p == Len(f) + 1
           q == Len(f) + 1 + Len(g) + 1
           Joined(u, v) == /\ u \o v \in Seq(Units) /\ Len(u \o v) = Len(u) + Len(v)
                           /\ \A i \in 1 .. Len(u) : (u \o v)[i] = u[i]
                           /\ \A i \in 1 .. Len(v) : (u \o v)[Len(u) + i] = v[i]
<1>1. \A u, v \in Seq(Units) : Joined(u, v)
  BY ConcatAt
<1> HIDE DEF Joined
<1>2. and \in Seq(Units) /\ Len(and) = 1 /\ and[1] = Raw("&")
  BY DEF Raw, Units, Bytes
<1>3. /\ Len(f) \in Nat /\ Len(g) \in Nat /\ Len(h) \in Nat
      /\ p \in Nat /\ q \in Nat /\ p = Len(f) + 1 /\ q = p + Len(g) + 1
  OBVIOUS
<1>4. ThreeTexts(f, g, h) = s
  BY DEF ThreeTexts
<1> HIDE DEF p, q, and, s
<1>5. /\ a \in Seq(Units) /\ Len(a) = p
      /\ \A i \in 1 .. Len(f) : a[i] = f[i]
      /\ a[p] = Raw("&")
  <2>1. Joined(f, and)
    BY <1>1, <1>2
  <2> QED BY <1>2, <1>3, <2>1 DEF Joined
<1> HIDE DEF a
<1>6. /\ b \in Seq(Units) /\ Len(b) = p + Len(g)
      /\ \A i \in 1 .. p : b[i] = a[i]
      /\ \A i \in 1 .. Len(g) : b[p + i] = g[i]
  <2>1. Joined(a, g)
    BY <1>1, <1>5
  <2> QED BY <1>3, <1>5, <2>1 DEF Joined
<1> HIDE DEF b
<1>7. /\ c \in Seq(Units) /\ Len(c) = q
      /\ \A i \in 1 .. p + Len(g) : c[i] = b[i]
      /\ c[q] = Raw("&")
  <2>1. Joined(b, and)
    BY <1>1, <1>2, <1>6
  <2> QED BY <1>2, <1>3, <1>6, <2>1 DEF Joined
<1> HIDE DEF c
<1>8. /\ s \in Seq(Units) /\ Len(s) = q + Len(h)
      /\ \A i \in 1 .. q : s[i] = c[i]
      /\ \A i \in 1 .. Len(h) : s[q + i] = h[i]
  <2>1. Joined(c, h)
    BY <1>1, <1>7
  <2>2. /\ c \o h \in Seq(Units) /\ Len(c \o h) = Len(c) + Len(h)
        /\ \A i \in 1 .. Len(c) : (c \o h)[i] = c[i]
        /\ \A i \in 1 .. Len(h) : (c \o h)[Len(c) + i] = h[i]
    BY <2>1, Zenon DEF Joined
  <2>3. Len(c) = q
    BY <1>7
  <2> QED BY <2>2, <2>3, Zenon DEF s
<1>9. ASSUME NEW i \in 1 .. Len(f) PROVE s[i] = f[i]
  <2>1. i \in 1 .. p /\ i \in 1 .. p + Len(g) /\ i \in 1 .. q
    BY <1>3
  <2> QED BY <1>5, <1>6, <1>7, <1>8, <2>1
<1>10. s[p] = Raw("&")
  <2>1. p \in 1 .. p /\ p \in 1 .. p + Len(g) /\ p \in 1 .. q
    BY <1>3
  <2> QED BY <1>5, <1>6, <1>7, <1>8, <2>1
<1>11. ASSUME NEW i \in 1 .. Len(g) PROVE s[p + i] = g[i]
  <2>1. p + i \in 1 .. p + Len(g) /\ p + i \in 1 .. q
    BY <1>3
  <2> QED BY <1>6, <1>7, <1>8, <2>1
<1>12. s[q] = Raw("&")
  <2>1. q \in 1 .. q
    BY <1>3
  <2> QED BY <1>7, <1>8, <2>1
<1> QED BY <1>4, <1>8, <1>9, <1>10, <1>11, <1>12 DEF p, q, Placed

\* The value of a field whose name no other field has.
LEMMA ValueOfOnly ==
  ASSUME NEW body, NEW name, NEW field \in Fields(body), IsNamed(body, field, name),
         \A other \in Fields(body) : IsNamed(body, other, name) => other = field
  PROVE  ValueOf(body, name) = SubSeq(body, field[1] + 3, field[2] - 1)
<1> DEFINE named(other) == IsNamed(body, other, name)
<1>1. (CHOOSE other \in Fields(body) : named(other)) = field
  <2> HIDE DEF named
  <2>1. named(field) /\ \A other \in Fields(body) : named(other) => other = field
    BY DEF named
  <2> QED BY <2>1
<1> QED BY <1>1 DEF ValueOf

\* A body that is text and splits into the three fields, with these values.
SplitsInto(body, ssid, password, token) ==
  /\ body \in Seq(Units) /\ Utf8(Text(body))
  /\ \A field \in Fields(body) : \E name \in FieldNames : IsNamed(body, field, name)
  /\ \A name \in FieldNames : \E field \in Fields(body) :
       \A other \in Fields(body) : IsNamed(body, other, name) <=> other = field
  /\ ValueOf(body, "ssid") = ssid
  /\ ValueOf(body, "password") = password
  /\ ValueOf(body, "token") = token

\* The body that a browser sends does.
LEMMA SubmissionSplits ==
  ASSUME NEW ssid \in Seq(Bytes), NEW password \in Seq(Bytes), NEW token \in Seq(Bytes),
         NEW body,
         body = ThreeTexts(Field("ssid", ssid), Field("password", password),
                           Field("token", token))
  PROVE  SplitsInto(body, Encoded(ssid), Encoded(password), Encoded(token))
<1> DEFINE f == Field("ssid", ssid)
           g == Field("password", password)
           h == Field("token", token)
           a == Len(ssid)
           b == Len(password)
           c == Len(token)
           p == a + 3
           q == p + b + 3
           n == q + c + 3
           Inner(u) == u # Raw("&") /\ (u.escaped \/ u.byte \notin {"lead", "cont"})
<1>1. a \in Nat /\ b \in Nat /\ c \in Nat
  OBVIOUS
<1>2. /\ f \in Seq(Units) /\ Len(f) = a + 2
      /\ f[1] = Raw("ssid") /\ f[2] = Raw("=")
      /\ \A i \in 1 .. a : f[i + 2] = Encoded(ssid)[i]
      /\ \A i \in 1 .. a + 2 : Inner(f[i])
  BY FieldText DEF FieldNames
<1>3. /\ g \in Seq(Units) /\ Len(g) = b + 2
      /\ g[1] = Raw("password") /\ g[2] = Raw("=")
      /\ \A i \in 1 .. b : g[i + 2] = Encoded(password)[i]
      /\ \A i \in 1 .. b + 2 : Inner(g[i])
  BY FieldText DEF FieldNames
<1>4. /\ h \in Seq(Units) /\ Len(h) = c + 2
      /\ h[1] = Raw("token") /\ h[2] = Raw("=")
      /\ \A i \in 1 .. c : h[i + 2] = Encoded(token)[i]
      /\ \A i \in 1 .. c + 2 : Inner(h[i])
  BY FieldText DEF FieldNames
<1>5. /\ Encoded(ssid) \in Seq(Units) /\ Len(Encoded(ssid)) = a
      /\ Encoded(password) \in Seq(Units) /\ Len(Encoded(password)) = b
      /\ Encoded(token) \in Seq(Units) /\ Len(Encoded(token)) = c
  BY EncodedValue
<1>6. body = ThreeTexts(f, g, h)
  OBVIOUS
<1> HIDE DEF f, g, h, a, b, c, Inner
<1>7. /\ p \in Nat /\ q \in Nat /\ n \in Nat
      /\ 0 < p /\ p < q /\ q < n
  BY <1>1
<1>8. p = a + 3 /\ q = p + b + 3 /\ n = q + c + 3
  OBVIOUS
<1> HIDE DEF p, q, n
<1>9. /\ body \in Seq(Units) /\ Len(body) = q + c + 2
      /\ \A i \in 1 .. a + 2 : body[i] = f[i]
      /\ body[p] = Raw("&")
      /\ \A i \in 1 .. b + 2 : body[p + i] = g[i]
      /\ body[q] = Raw("&")
      /\ \A i \in 1 .. c + 2 : body[q + i] = h[i]
  <2>1. f \in Seq(Units) /\ g \in Seq(Units) /\ h \in Seq(Units)
    BY <1>2, <1>3, <1>4
  <2>2. p \in Nat /\ p = Len(f) + 1 /\ q \in Nat /\ q = p + Len(g) + 1
    BY <1>1, <1>2, <1>3, <1>7, <1>8
  <2>3. /\ body \in Seq(Units) /\ Len(body) = q + Len(h)
        /\ \A i \in 1 .. Len(f) : body[i] = f[i]
        /\ body[p] = Raw("&")
        /\ \A i \in 1 .. Len(g) : body[p + i] = g[i]
        /\ body[q] = Raw("&")
        /\ \A i \in 1 .. Len(h) : body[q + i] = h[i]
    <3>1. Placed(ThreeTexts(f, g, h), f, g, h)
      BY <2>1, ThreeTextsPlaced
    <3>2. Placed(body, f, g, h)
      BY <1>6, <3>1
    <3> QED BY <2>2, <3>2 DEF Placed
  <2>4. q + Len(h) = q + c + 2
    BY <1>1, <1>4, <1>7
  <2> QED BY <1>2, <1>3, <1>4, <2>3, <2>4
<1>10. DOMAIN body = 1 .. q + c + 2 /\ Len(body) + 1 = n
  <2>1. body \in Seq(Units) /\ Len(body) = q + c + 2
    BY <1>9
  <2>2. (q + c + 2) + 1 = n
    BY <1>1, <1>7, <1>8
  <2> QED BY <2>1, <2>2
\* What each unit is.
<1>11. ASSUME NEW i \in 1 .. q + c + 2
       PROVE  \/ Inner(body[i]) /\ i # p /\ i # q
              \/ body[i] = Raw("&") /\ i \in {p, q}
  <2>1. CASE i < p
    <3>1. i \in 1 .. a + 2 /\ i # p /\ i # q
      BY <1>1, <1>7, <1>8, <2>1
    <3> QED BY <1>2, <1>9, <3>1
  <2>2. CASE p < i /\ i < q
    <3> DEFINE j == i - p
    <3>1. j \in 1 .. b + 2 /\ p + j = i /\ i # p /\ i # q
      BY <1>1, <1>7, <1>8, <2>2
    <3> HIDE DEF j
    <3>2. body[p + j] = g[j] /\ Inner(g[j])
      BY <1>3, <1>9, <3>1
    <3> QED BY <3>1, <3>2
  <2>3. CASE q < i
    <3> DEFINE j == i - q
    <3>1. j \in 1 .. c + 2 /\ q + j = i /\ i # p /\ i # q
      BY <1>1, <1>7, <1>8, <2>3
    <3> HIDE DEF j
    <3>2. body[q + j] = h[j] /\ Inner(h[j])
      BY <1>4, <1>9, <3>1
    <3> QED BY <3>1, <3>2
  <2>4. CASE i = p \/ i = q
    <3>1. body[p] = Raw("&") /\ body[q] = Raw("&")
      BY <1>9
    <3> QED BY <2>4, <3>1
  <2>5. i < p \/ (p < i /\ i < q) \/ q < i \/ i = p \/ i = q
    BY <1>1, <1>7
  <2> QED BY <2>1, <2>2, <2>3, <2>4, <2>5
\* The fields.
<1>12. Fields(body) = {<<0, p>>, <<p, q>>, <<q, n>>}
  <2>1. p \in 1 .. q + c + 2 /\ q \in 1 .. q + c + 2
    BY <1>1, <1>7
  <2>2. \A i \in 1 .. q + c + 2 : body[i] = Raw("&") <=> i \in {p, q}
    BY <1>11 DEF Inner
  <2>3. {i \in DOMAIN body : body[i] = Raw("&")} = {p, q}
    BY <1>10, <2>1, <2>2
  <2>4. Stops(body) = {0, p, q, n}
    BY <1>10, <2>3 DEF Stops
  <2>5. p \in Nat /\ q \in Nat /\ n \in Nat /\ 0 < p /\ p < q /\ q < n
    BY <1>7
  <2>6. ASSUME NEW i \in {0, p, q, n}, NEW j \in {0, p, q, n}
        PROVE  (i < j /\ \A k \in {0, p, q, n} : k <= i \/ j <= k)
                 <=> (i = 0 /\ j = p) \/ (i = p /\ j = q) \/ (i = q /\ j = n)
    BY <2>5
  <2>7. ASSUME NEW field
        PROVE  field \in Fields(body) <=> field \in {<<0, p>>, <<p, q>>, <<q, n>>}
    <3>1. field \in Fields(body)
            <=> \E i, j \in {0, p, q, n} :
                  field = <<i, j>> /\ i < j /\ \A k \in {0, p, q, n} : k <= i \/ j <= k
      <4> DEFINE stops == {0, p, q, n}
      <4>1. Stops(body) = stops
        BY <2>4
      <4> HIDE DEF stops
      <4>2. field \in Fields(body)
              <=> \E i, j \in stops :
                    field = <<i, j>> /\ i < j /\ \A k \in stops : k <= i \/ j <= k
        BY <4>1 DEF Fields
      <4> QED BY <4>2 DEF stops
    <3>2. field \in Fields(body)
            <=> \E i, j \in {0, p, q, n} :
                  /\ field = <<i, j>>
                  /\ (i = 0 /\ j = p) \/ (i = p /\ j = q) \/ (i = q /\ j = n)
      BY <2>6, <3>1
    <3> QED BY <3>2
  <2> QED BY <2>7
<1>13. Raw("ssid") # Raw("password") /\ Raw("ssid") # Raw("token")
         /\ Raw("password") # Raw("token")
  BY DEF Raw
<1>14. /\ body[1] = Raw("ssid") /\ body[2] = Raw("=")
       /\ body[p + 1] = Raw("password") /\ body[p + 2] = Raw("=")
       /\ body[q + 1] = Raw("token") /\ body[q + 2] = Raw("=")
  <2>1. 1 \in 1 .. a + 2 /\ 2 \in 1 .. a + 2 /\ 1 \in 1 .. b + 2 /\ 2 \in 1 .. b + 2
          /\ 1 \in 1 .. c + 2 /\ 2 \in 1 .. c + 2
    BY <1>1
  <2> QED BY <1>2, <1>3, <1>4, <1>9, <2>1
<1>15. ASSUME NEW name \in FieldNames
       PROVE  /\ IsNamed(body, <<0, p>>, name) <=> name = "ssid"
              /\ IsNamed(body, <<p, q>>, name) <=> name = "password"
              /\ IsNamed(body, <<q, n>>, name) <=> name = "token"
  <2>1. 0 + 2 < p /\ p + 2 < q /\ q + 2 < n
    BY <1>1, <1>7, <1>8
  <2>2. \A other : Raw(name) = Raw(other) => name = other
    BY DEF Raw
  <2>3. 0 + 1 = 1 /\ 0 + 2 = 2
    OBVIOUS
  <2>4. IsNamed(body, <<0, p>>, name) <=> name = "ssid"
    BY <1>14, <2>1, <2>2, <2>3 DEF IsNamed
  <2>5. IsNamed(body, <<p, q>>, name) <=> name = "password"
    BY <1>14, <2>1, <2>2 DEF IsNamed
  <2>6. IsNamed(body, <<q, n>>, name) <=> name = "token"
    BY <1>14, <2>1, <2>2 DEF IsNamed
  <2> QED BY <2>4, <2>5, <2>6
<1>16. <<0, p>> # <<p, q>> /\ <<0, p>> # <<q, n>> /\ <<p, q>> # <<q, n>>
  BY <1>7
<1>17. \A field \in Fields(body) : \E name \in FieldNames : IsNamed(body, field, name)
  BY <1>12, <1>15 DEF FieldNames
<1>18. ASSUME NEW other \in Fields(body)
       PROVE  /\ IsNamed(body, other, "ssid") <=> other = <<0, p>>
              /\ IsNamed(body, other, "password") <=> other = <<p, q>>
              /\ IsNamed(body, other, "token") <=> other = <<q, n>>
  <2>1. other = <<0, p>> \/ other = <<p, q>> \/ other = <<q, n>>
    BY <1>12
  <2>2. "ssid" \in FieldNames /\ "password" \in FieldNames /\ "token" \in FieldNames
    BY DEF FieldNames
  <2> QED BY <1>15, <1>16, <2>1, <2>2
<1>19. \A name \in FieldNames : \E field \in Fields(body) :
         \A other \in Fields(body) : IsNamed(body, other, name) <=> other = field
  <2>1. /\ \A other \in Fields(body) : IsNamed(body, other, "ssid") <=> other = <<0, p>>
        /\ \A other \in Fields(body) : IsNamed(body, other, "password") <=> other = <<p, q>>
        /\ \A other \in Fields(body) : IsNamed(body, other, "token") <=> other = <<q, n>>
    BY <1>18
  <2>2. <<0, p>> \in Fields(body) /\ <<p, q>> \in Fields(body) /\ <<q, n>> \in Fields(body)
    BY <1>12
  <2> SUFFICES ASSUME NEW name \in FieldNames
               PROVE  \E field \in Fields(body) :
                        \A other \in Fields(body) : IsNamed(body, other, name) <=> other = field
    OBVIOUS
  <2>3. name = "ssid" \/ name = "password" \/ name = "token"
    BY DEF FieldNames
  <2> QED BY <2>1, <2>2, <2>3, Zenon
\* Their values.
<1>20. ValueOf(body, "ssid") = Encoded(ssid)
  <2>1. ValueOf(body, "ssid") = SubSeq(body, 0 + 3, p - 1)
    <3> DEFINE field == <<0, p>>
    <3>1. field \in Fields(body) /\ IsNamed(body, field, "ssid")
      BY <1>12, <1>18
    <3>2. \A other \in Fields(body) : IsNamed(body, other, "ssid") => other = field
      BY <1>18
    <3>3. field[1] + 3 = 0 + 3 /\ field[2] - 1 = p - 1
      OBVIOUS
    <3> HIDE DEF field
    <3>4. ValueOf(body, "ssid") = SubSeq(body, field[1] + 3, field[2] - 1)
      BY <3>1, <3>2, ValueOfOnly
    <3> QED BY <3>3, <3>4
  <2>2. ASSUME NEW i \in 1 .. a PROVE body[2 + i] = Encoded(ssid)[i]
    <3>1. i + 2 \in 1 .. a + 2 /\ 2 + i = i + 2
      BY <1>1
    <3> QED BY <1>2, <1>9, <3>1
  <2>3. 2 + a <= Len(body) /\ 2 \in Nat
    BY <1>1, <1>7, <1>8, <1>9
  <2>4. SubSeq(body, 2 + 1, 2 + a) = Encoded(ssid)
    <3>1. body \in Seq(Units) /\ Encoded(ssid) \in Seq(Units) /\ Len(Encoded(ssid)) = a
      BY <1>5, <1>9, Zenon
    <3>2. \A i \in 1 .. a : body[2 + i] = Encoded(ssid)[i]
      BY <2>2
    <3> QED BY <2>3, <3>1, <3>2, UnitsAre
  <2>5. 0 + 3 = 2 + 1 /\ p - 1 = 2 + a
    BY <1>1, <1>7, <1>8
  <2> QED BY <2>1, <2>4, <2>5
<1>21. ValueOf(body, "password") = Encoded(password)
  <2>1. ValueOf(body, "password") = SubSeq(body, p + 3, q - 1)
    <3> DEFINE field == <<p, q>>
    <3>1. field \in Fields(body) /\ IsNamed(body, field, "password")
      BY <1>12, <1>18
    <3>2. \A other \in Fields(body) : IsNamed(body, other, "password") => other = field
      BY <1>18
    <3>3. field[1] + 3 = p + 3 /\ field[2] - 1 = q - 1
      OBVIOUS
    <3> HIDE DEF field
    <3>4. ValueOf(body, "password") = SubSeq(body, field[1] + 3, field[2] - 1)
      BY <3>1, <3>2, ValueOfOnly
    <3> QED BY <3>3, <3>4
  <2>2. ASSUME NEW i \in 1 .. b PROVE body[(p + 2) + i] = Encoded(password)[i]
    <3> DEFINE j == i + 2
    <3>1. j \in 1 .. b + 2 /\ (p + 2) + i = p + j
      BY <1>1, <1>7
    <3>2. g[j] = Encoded(password)[i]
      BY <1>3
    <3> HIDE DEF j
    <3>3. body[p + j] = g[j]
      BY <1>9, <3>1
    <3> QED BY <3>1, <3>2, <3>3
  <2>3. (p + 2) + b <= Len(body) /\ p + 2 \in Nat
    BY <1>1, <1>7, <1>8, <1>9
  <2>4. SubSeq(body, (p + 2) + 1, (p + 2) + b) = Encoded(password)
    <3> DEFINE start == p + 2
    <3>1. body \in Seq(Units) /\ Encoded(password) \in Seq(Units) /\ Len(Encoded(password)) = b
      BY <1>5, <1>9, Zenon
    <3>2. \A i \in 1 .. b : body[start + i] = Encoded(password)[i]
      BY <2>2
    <3>3. start \in Nat /\ start + b <= Len(body)
      BY <2>3
    <3> HIDE DEF start
    <3>4. SubSeq(body, start + 1, start + b) = Encoded(password)
      BY <3>1, <3>2, <3>3, UnitsAre
    <3> QED BY <3>4 DEF start
  <2>5. p + 3 = (p + 2) + 1 /\ q - 1 = (p + 2) + b
    BY <1>1, <1>7, <1>8
  <2> QED BY <2>1, <2>4, <2>5
<1>22. ValueOf(body, "token") = Encoded(token)
  <2>1. ValueOf(body, "token") = SubSeq(body, q + 3, n - 1)
    <3> DEFINE field == <<q, n>>
    <3>1. field \in Fields(body) /\ IsNamed(body, field, "token")
      BY <1>12, <1>18
    <3>2. \A other \in Fields(body) : IsNamed(body, other, "token") => other = field
      BY <1>18
    <3>3. field[1] + 3 = q + 3 /\ field[2] - 1 = n - 1
      OBVIOUS
    <3> HIDE DEF field
    <3>4. ValueOf(body, "token") = SubSeq(body, field[1] + 3, field[2] - 1)
      BY <3>1, <3>2, ValueOfOnly
    <3> QED BY <3>3, <3>4
  <2>2. ASSUME NEW i \in 1 .. c PROVE body[(q + 2) + i] = Encoded(token)[i]
    <3> DEFINE j == i + 2
    <3>1. j \in 1 .. c + 2 /\ (q + 2) + i = q + j
      BY <1>1, <1>7
    <3>2. h[j] = Encoded(token)[i]
      BY <1>4
    <3> HIDE DEF j
    <3>3. body[q + j] = h[j]
      BY <1>9, <3>1
    <3> QED BY <3>1, <3>2, <3>3
  <2>3. (q + 2) + c <= Len(body) /\ q + 2 \in Nat
    BY <1>1, <1>7, <1>8, <1>9
  <2>4. SubSeq(body, (q + 2) + 1, (q + 2) + c) = Encoded(token)
    <3> DEFINE start == q + 2
    <3>1. body \in Seq(Units) /\ Encoded(token) \in Seq(Units) /\ Len(Encoded(token)) = c
      BY <1>5, <1>9, Zenon
    <3>2. \A i \in 1 .. c : body[start + i] = Encoded(token)[i]
      BY <2>2
    <3>3. start \in Nat /\ start + c <= Len(body)
      BY <2>3
    <3> HIDE DEF start
    <3>4. SubSeq(body, start + 1, start + c) = Encoded(token)
      BY <3>1, <3>2, <3>3, UnitsAre
    <3> QED BY <3>4 DEF start
  <2>5. q + 3 = (q + 2) + 1 /\ n - 1 = (q + 2) + c
    BY <1>1, <1>7, <1>8
  <2> QED BY <2>1, <2>4, <2>5
\* All of it is ASCII.
<1>23. Utf8(Text(body))
  <2>1. DOMAIN Text(body) = 1 .. q + c + 2
    BY <1>10 DEF Text
  <2>2. ASSUME NEW i \in 1 .. q + c + 2 PROVE Text(body)[i] \notin {"lead", "cont"}
    <3>1. body[i].escaped \/ body[i].byte \notin {"lead", "cont"}
      <4>1. Raw("&").byte \notin {"lead", "cont"}
        BY DEF Raw
      <4> QED BY <1>11, <4>1 DEF Inner
    <3>2. Text(body)[i] = IF body[i].escaped THEN "mark" ELSE body[i].byte
      BY <1>10 DEF Text
    <3> QED BY <3>1, <3>2
  <2> QED BY <2>1, <2>2 DEF Utf8
<1> QED BY <1>9, <1>17, <1>19, <1>20, <1>21, <1>22, <1>23 DEF SplitsInto

\* parse_form of what a browser sends: saved as it was filled in, or refused.
LEMMA SubmissionParsed ==
  ASSUME NEW config \in Entries
  PROVE  /\ Submission(config) \in Seq(Units)
         /\ parse_form(Submission(config))
              = IF Acceptable(config) THEN Save(config) ELSE BadRequest
<1> DEFINE ssid == config.ssid
           password == config.password
           token == config.token
           body == Submission(config)
<1>1. /\ config \in [ssid : Seq(Bytes), password : Seq(Bytes), token : Seq(Bytes)]
      /\ ssid \in Seq(Bytes) /\ password \in Seq(Bytes) /\ token \in Seq(Bytes)
      /\ Utf8(ssid) /\ Utf8(password) /\ Utf8(token)
  BY EntryAssumption
<1>2. config = [ssid |-> ssid, password |-> password, token |-> token]
  BY <1>1
<1>3. body = ThreeTexts(Field("ssid", ssid), Field("password", password),
                        Field("token", token))
  BY DEF Submission, ThreeTexts
<1>4. DeviceConfig_new(config)
        => /\ Len(ssid) <= MAX_SSID_LEN /\ Len(password) <= MAX_PASSWORD_LEN
           /\ Len(token) <= MAX_TOKEN_LEN /\ "nul" \notin ToSet(token)
  <2> SUFFICES ASSUME DeviceConfig_new(config)
               PROVE  /\ Len(ssid) <= MAX_SSID_LEN /\ Len(password) <= MAX_PASSWORD_LEN
                      /\ Len(token) <= MAX_TOKEN_LEN /\ "nul" \notin ToSet(token)
    OBVIOUS
  <2>1. /\ Len(ssid) \in 1 .. MAX_SSID_LEN
        /\ \/ Len(password) \in {0} \union (MIN_PASSWORD_LEN .. MAX_PASSWORD_LEN - 1)
           \/ Len(password) = MAX_PASSWORD_LEN
        /\ Len(token) \in MIN_TOKEN_LEN .. MAX_TOKEN_LEN
        /\ ToSet(token) \subseteq TokenBytes
    BY DEF DeviceConfig_new
  <2> HIDE DEF ssid, password, token
  <2>2. Len(ssid) <= MAX_SSID_LEN
    BY <2>1, LimitAssumption
  <2>3. Len(password) <= MAX_PASSWORD_LEN
    BY <2>1, LimitAssumption
  <2>4. Len(token) <= MAX_TOKEN_LEN
    BY <2>1, LimitAssumption
  <2>5. "nul" \notin ToSet(token)
    BY <2>1 DEF TokenBytes
  <2> QED BY <2>2, <2>3, <2>4, <2>5
<1>5. Acceptable(config)
        <=> DeviceConfig_new(config) /\ "nul" \notin ToSet(ssid) /\ "nul" \notin ToSet(password)
  BY DEF Acceptable
<1> HIDE DEF ssid, password, token, body
<1>6. SplitsInto(body, Encoded(ssid), Encoded(password), Encoded(token))
  BY <1>1, <1>3, SubmissionSplits
<1>7. FormConfig(body) = config
  <2>1. /\ decoded(Encoded(ssid)) = ssid /\ decoded(Encoded(password)) = password
        /\ decoded(Encoded(token)) = token
    BY <1>1, EncodedValue
  <2> QED BY <1>2, <1>6, <2>1 DEF FormConfig, SplitsInto
<1>8. /\ decode_component(Encoded(ssid), MAX_SSID_LEN)
           <=> Len(ssid) <= MAX_SSID_LEN /\ "nul" \notin ToSet(ssid)
      /\ decode_component(Encoded(password), MAX_PASSWORD_LEN)
           <=> Len(password) <= MAX_PASSWORD_LEN /\ "nul" \notin ToSet(password)
      /\ decode_component(Encoded(token), MAX_TOKEN_LEN)
           <=> Len(token) <= MAX_TOKEN_LEN /\ "nul" \notin ToSet(token)
  <2>1. MAX_SSID_LEN \in Nat /\ MAX_PASSWORD_LEN \in Nat /\ MAX_TOKEN_LEN \in Nat
    BY LimitAssumption
  <2> QED BY <1>1, <2>1, EncodedDecodes
<1>9. IsForm(body)
        <=> /\ decode_component(Encoded(ssid), MAX_SSID_LEN)
            /\ decode_component(Encoded(password), MAX_PASSWORD_LEN)
            /\ decode_component(Encoded(token), MAX_TOKEN_LEN)
  BY <1>6 DEF IsForm, SplitsInto
<1>10. IsForm(body) /\ DeviceConfig_new(config) <=> Acceptable(config)
  BY <1>4, <1>5, <1>8, <1>9
<1>11. parse_form(body) = IF Acceptable(config) THEN Save(config) ELSE BadRequest
  BY <1>6, <1>7, <1>10 DEF parse_form, SplitsInto
<1> QED BY <1>6, <1>11 DEF body, SplitsInto

\* The header a browser writes says the length of its body and that it is a form.
LEMMA FormHeaderTaken ==
  ASSUME NEW r, NEW n \in Nat, r.headers = FormHeader(n)
  PROVE  ~HeaderRefused(r) /\ body_length(r) = n /\ valid_content_type(r)
<1>1. /\ DOMAIN r.headers = {1, 2}
      /\ r.headers[1].name = "content-type" /\ r.headers[1].value = TRUE
      /\ r.headers[2].name = "content-length" /\ r.headers[2].value = n
  BY DEF FormHeader
<1>2. /\ None # "content-type" /\ None # "content-length"
      /\ None # n
  BY NoneAssumption
<1>3. Lines(r, None) = {} /\ Lines(r, "transfer-encoding") = {}
  BY <1>1, <1>2 DEF Lines
<1>4. Lines(r, "content-length") = {2} /\ Lines(r, "content-type") = {1}
  BY <1>1 DEF Lines
<1>5. ~HeaderRefused(r)
  BY <1>1, <1>2, <1>3, <1>4 DEF HeaderRefused
<1>6. body_length(r) = n
  <2>1. \A i \in DOMAIN r.headers : Lines(r, "content-length") = {i} <=> i = 2
    BY <1>1, <1>4
  <2>2. (CHOOSE i \in DOMAIN r.headers : Lines(r, "content-length") = {i}) = 2
    BY <1>1, <2>1
  <2> QED BY <1>1, <2>2 DEF body_length
<1>7. valid_content_type(r)
  BY <1>1, <1>4 DEF valid_content_type
<1> QED BY <1>5, <1>6, <1>7

\* What the worker makes of a browser's form, when all of it is there.
LEMMA SubmissionTaken ==
  ASSUME NEW r \in Requests, NEW config \in Entries, Submits(r, config),
         Length(r) <= capacity
  PROVE  Whole(r) = IF Acceptable(config) THEN Save(config) ELSE BadRequest
<1>1. /\ r.header_end \in Nat /\ Len(r.body) \in Nat /\ r.body = Submission(config)
      /\ r.body \in Seq(Units)
  <2>1. r.header_end \in Nat /\ r.body \in Seq(Units)
    BY RequestAssumption
  <2>2. Len(r.body) \in Nat
    BY <2>1
  <2> QED BY <2>1, <2>2 DEF Submits
<1>2. ~HeaderRefused(r) /\ body_length(r) = Len(r.body) /\ valid_content_type(r)
  BY <1>1, FormHeaderTaken DEF Submits
<1>3. Room(r) = Length(r) /\ total_length(r) = Length(r)
  BY <1>1, <1>2, CapacityAssumption DEF Room, Length, total_length
<1>4. Length(r) \in Nat /\ r.header_end <= Length(r)
  BY <1>1 DEF Length
<1>5. HeaderArrived(r, Length(r))
  BY <1>4 DEF HeaderArrived, Submits
<1>6. Whole(r) = parse_post(r, Length(r))
  BY <1>3, <1>5 DEF Whole, parse_request, Submits
<1>7. parse_post(r, Length(r)) = parse_form(Body(r))
  <2>1. ~(total_length(r) > capacity) /\ ~(Length(r) < total_length(r))
    BY <1>3, <1>4, CapacityAssumption
  <2> QED BY <1>2, <2>1 DEF parse_post
<1>8. Body(r) = Submission(config)
  <2>1. SubSeq(r.body, 0 + 1, 0 + Len(r.body)) = r.body
    <3>1. 0 \in Nat /\ 0 + Len(r.body) <= Len(r.body)
      BY <1>1
    <3>2. \A i \in 1 .. Len(r.body) : r.body[0 + i] = r.body[i]
      OBVIOUS
    <3> QED BY <1>1, <3>1, <3>2, PartIs
  <2>2. 0 + 1 = 1 /\ 0 + Len(r.body) = Len(r.body)
    BY <1>1
  <2> QED BY <1>1, <1>2, <2>1, <2>2 DEF Body
<1> QED BY <1>6, <1>7, <1>8, SubmissionParsed
-----------------------------------------------------------------------------
\* The inductive invariant: what the worker holds is the parser's view of the
\* bytes that have come, or the end of the connection.
Sound ==
  /\ request \in Requests
  /\ used \in Nat /\ used <= Room(request)
  /\ ended \in BOOLEAN
  /\ outcome = Undecided => used = 0 \/ parse_request(request, used) = Undecided
  /\ outcome # Undecided =>
       outcome = parse_request(request, used) \/ (ended /\ outcome = BadRequest)

LEMMA SoundInit == Init => Sound
<1> SUFFICES ASSUME Init PROVE Sound
  OBVIOUS
<1>1. request \in Requests /\ used = 0 /\ ended \in BOOLEAN /\ outcome = Undecided
  BY DEF Init
<1>2. 0 <= Room(request)
  BY <1>1, RoomIsBounded
<1> QED BY <1>1, <1>2 DEF Sound

LEMMA SoundStep == Sound /\ [Next]_requestVars => Sound'
<1> SUFFICES ASSUME Sound, [Next]_requestVars PROVE Sound'
  OBVIOUS
<1>1. ASSUME NEW length \in 1 .. capacity, Read(length) PROVE Sound'
  <2>1. used' \in Nat /\ used' <= Room(request)
    BY <1>1, CapacityAssumption DEF Sound, Read
  <2> QED BY <1>1, <2>1 DEF Sound, Read
<1>2. ASSUME End PROVE Sound'
  <2>1. BadRequest # Undecided
    BY DEF BadRequest, Undecided
  <2> QED BY <1>2, <2>1 DEF Sound, End
<1>3. ASSUME NEW r \in Requests, Accept(r) PROVE Sound'
  <2>1. 0 <= Room(r)
    BY RoomIsBounded
  <2> QED BY <1>3, <2>1 DEF Sound, Accept
<1>4. CASE UNCHANGED requestVars
  BY <1>4 DEF Sound, requestVars
<1> QED BY <1>1, <1>2, <1>3, <1>4 DEF Next

LEMMA RequestInvariant == Spec => []Sound
<1>1. Init => Sound
  BY SoundInit
<1>2. Sound /\ [Next]_requestVars => Sound'
  BY SoundStep
<1> QED BY <1>1, <1>2, PTL DEF Spec
-----------------------------------------------------------------------------
(***************************************************************************)
(* Wherever the network cuts a request, the worker's decision is the one   *)
(* it would take on the whole of it.                                       *)
(***************************************************************************)
THEOREM OutcomeIsCutIndependent == Spec => []CutIndependent
<1>1. Sound => CutIndependent
  <2> SUFFICES ASSUME Sound, outcome # Undecided, outcome = parse_request(request, used)
               PROVE  outcome = Whole(request)
    BY DEF Sound, CutIndependent
  <2>1. /\ request \in Requests /\ used \in Nat /\ used <= Room(request)
        /\ Room(request) \in Nat /\ Room(request) <= capacity
    BY RoomIsBounded DEF Sound
  <2>2. parse_request(request, used) # Undecided
    OBVIOUS
  <2>3. parse_request(request, Room(request)) = parse_request(request, used)
    BY <2>1, <2>2, DecisionStands
  <2> QED BY <2>3 DEF Whole
<1> QED BY <1>1, RequestInvariant, PTL

(***************************************************************************)
(* No request, however long, fills the buffer undecided: the branch for a  *)
(* full buffer in the read loop is never taken.                            *)
(***************************************************************************)
THEOREM FullBufferDecides == Spec => []FullBufferIsDecided
<1>1. Sound => FullBufferIsDecided
  <2> SUFFICES ASSUME Sound, outcome = Undecided PROVE used < capacity
    BY DEF FullBufferIsDecided
  <2>1. used \in Nat /\ used <= capacity
    BY RoomIsBounded, CapacityAssumption DEF Sound
  <2>2. CASE used = 0
    BY <2>2, CapacityAssumption
  <2>3. CASE parse_request(request, used) = Undecided
    <3>1. used # capacity
      BY <2>3, FullIsDecided DEF Sound
    <3> QED BY <2>1, <3>1, CapacityAssumption
  <2> QED BY <2>2, <2>3 DEF Sound
<1> QED BY <1>1, RequestInvariant, PTL

(***************************************************************************)
(* The variables keep their types, and nothing but a configuration that    *)
(* can be stored and used is handed on to be saved, whatever is sent:      *)
(* every field fits its place, holds text without a zero byte, and obeys   *)
(* the rules of DeviceConfig::new.                                         *)
(***************************************************************************)
THEOREM RequestTypeCorrect == Spec => []RequestTypeOK
<1>1. Sound => RequestTypeOK
  <2> SUFFICES ASSUME Sound PROVE RequestTypeOK
    OBVIOUS
  <2>1. /\ request \in Requests /\ used \in Nat /\ used <= Room(request)
        /\ ended \in BOOLEAN /\ Room(request) \in Nat
    BY RoomIsBounded DEF Sound
  <2>2. used \in 0 .. Room(request)
    BY <2>1
  <2>3. \/ outcome \in {Undecided, ShowForm, NotFound, BadRequest}
        \/ outcome[1] = "save" /\ Storable(outcome[2])
    <3> SUFFICES ASSUME outcome \notin {Undecided, ShowForm, NotFound, BadRequest}
                 PROVE  outcome[1] = "save" /\ Storable(outcome[2])
      OBVIOUS
    <3>1. outcome = parse_request(request, used)
      BY DEF Sound
    <3>2. outcome = parse_form(Body(request)) /\ Body(request) \in Seq(Units)
      BY <2>1, <3>1, RequestOutcome
    <3>3. /\ outcome = Save(FormConfig(Body(request)))
          /\ Storable(FormConfig(Body(request)))
      BY <3>2, FormIsStorable
    <3>4. outcome[1] = "save" /\ outcome[2] = FormConfig(Body(request))
      BY <3>3 DEF Save
    <3> QED BY <3>3, <3>4
  <2> QED BY <2>1, <2>2, <2>3 DEF RequestTypeOK
<1> QED BY <1>1, RequestInvariant, PTL
(***************************************************************************)
(* What people fill in comes back byte for byte, or is refused, exactly    *)
(* when it is not acceptable: for values of any length and any bytes, and  *)
(* wherever the network cuts the form.                                     *)
(***************************************************************************)
THEOREM FormsRoundTrip == Spec => []FormRoundTrip
<1>1. Sound /\ CutIndependent => FormRoundTrip
  <2> SUFFICES ASSUME Sound, CutIndependent, NEW config \in Entries,
                      Submits(request, config), Length(request) <= capacity, ~ended
               PROVE  outcome \in {Undecided,
                                   IF Acceptable(config) THEN Save(config) ELSE BadRequest}
    BY DEF FormRoundTrip
  <2>1. outcome \in {Undecided, Whole(request)}
    BY DEF CutIndependent
  <2>2. Whole(request) = IF Acceptable(config) THEN Save(config) ELSE BadRequest
    BY SubmissionTaken DEF Sound
  <2> QED BY <2>1, <2>2
<1> QED BY <1>1, RequestInvariant, OutcomeIsCutIndependent, PTL
=============================================================================
