---- MODULE MCSetupRequest ----
(***************************************************************************)
(* Requests to a small setup page: the forms a browser sends for names,    *)
(* passwords and tokens of every length up to one more than is allowed and *)
(* with every kind of byte, bodies no browser writes, and every kind of    *)
(* header.  The longest forms do not fit the buffer.                       *)
(***************************************************************************)
EXTENDS SetupRequest

HeaderEnd == 2

Entry(ssid, password, token) == [ssid |-> ssid, password |-> password, token |-> token]

Word == <<"word", "hex">>
Hex(n) == [i \in 1 .. n |-> "hex"]

\* One field at a time takes its interesting values.
Names ==
  {<<>>, <<"word">>, <<"lead", "cont">>, <<"hex", "mark", "hex">>}
    \union {<<"hex", byte>> : byte \in {"mark", "space", "nul", "+", "&", "="}}
Passwords ==
  {Hex(n) : n \in 0 .. MAX_PASSWORD_LEN + 1}
    \union {<<"word", "&", "=", "+">>, <<"lead", "cont", "space">>, <<"nul", "+">>}
Tokens ==
  {Hex(n) : n \in 0 .. MAX_TOKEN_LEN + 1}
    \union {<<"hex", byte>> : byte \in {"word", "mark", "space", "&", "="}}

MCEntries ==
  {Entry(name, <<>>, Word) : name \in Names}
    \union {Entry(Word, password, Word) : password \in Passwords}
    \union {Entry(Word, <<>>, token) : token \in Tokens}
    \union {Entry(<<"space", "=">>, Hex(MAX_PASSWORD_LEN), Hex(MAX_TOKEN_LEN))}

Request(line, headers, body) ==
  [header_end |-> HeaderEnd, blank_line |-> TRUE, utf8 |-> TRUE,
   line |-> line, headers |-> headers, body |-> body]

Post(headers, body) == Request("POST /save", headers, body)
Form(body) == Post(FormHeader(Len(body)), body)

Forms == {Form(Submission(config)) : config \in MCEntries}

\* Fields that no browser sends for this page.
Given(name) == <<Raw(name), Raw("=")>>
Valued(name, units) == Given(name) \o units
And(first, second) == first \o <<Raw("&")>> \o second
Good == Encoded(Word)
Both == And(Valued("ssid", Good), Given("password"))
Oddities ==
  { <<>>, Both, And(Both, Valued("token", Good)), And(Both, <<Raw("token")>>),
    And(Both, Valued("ssid", Good)), And(Both, And(Valued("token", Good), <<>>)),
    And(Both, <<Escape("token"), Raw("=")>> \o Good),
    And(Valued("token", Good), And(Given("password"), Valued("ssid", Good))),
    And(Both, Valued("other", Good)) }
  \union {And(Both, Valued("token", Append(Good, unit))) :
            unit \in {Broken, Escape("hex"), Raw("="), Raw("nul"), Raw("+")}}
  \union {And(Valued("ssid", units), And(Given("password"), Valued("token", Good))) :
            units \in { <<Raw("lead"), Raw("cont")>>, <<Raw("lead"), Escape("cont")>>,
                        <<Escape("lead"), Raw("word")>>, <<Escape("cont")>>,
                        <<Raw("lead")>>, <<Raw("mark"), Raw("=")>>, <<Broken>> }}

\* Headers that a form may come with.
Saved == Submission(Entry(Word, <<>>, Word))
Line(name, value) == [name |-> name, value |-> value]
Sized(length) == Line("content-length", length)
Typed(form) == Line("content-type", form)
Headers ==
  { <<>>, <<Typed(TRUE)>>, <<Sized(Len(Saved))>>,
    <<Typed(FALSE), Sized(Len(Saved))>>,
    <<Typed(FALSE), Sized(Len(Saved)), Typed(TRUE)>>,
    <<Typed(TRUE), Typed(FALSE), Sized(Len(Saved))>>,
    <<Sized(Len(Saved)), Sized(Len(Saved)), Typed(TRUE)>>,
    <<Line(None, None), Sized(Len(Saved)), Typed(TRUE)>>,
    <<Line("transfer-encoding", None), Sized(Len(Saved)), Typed(TRUE)>> }
  \union {FormHeader(length) :
            length \in {None, 0, Len(Saved) - 1, Len(Saved) + 1,
                        capacity - HeaderEnd, capacity - HeaderEnd + 1}}

MCRequests ==
  Forms \union {Form(body) : body \in Oddities} \union {Post(header, Saved) : header \in Headers}
    \union {Request(line, <<>>, <<>>) : line \in {"GET /", "other"}}
    \union { Request("other", FormHeader(Len(Saved)), Saved),
             [Form(Saved) EXCEPT !.utf8 = FALSE],
             [Form(Saved) EXCEPT !.header_end = capacity - Len(Saved)],
             [Form(Saved) EXCEPT !.header_end = capacity + 1],
             [Form(Saved) EXCEPT !.blank_line = FALSE, !.header_end = capacity],
             [Form(<<>>) EXCEPT !.blank_line = FALSE] }
====
