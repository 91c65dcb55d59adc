-------------------------------- MODULE Wire ---------------------------------
(***************************************************************************)
(* Messages on the wire (pkg/protocol): String writes the fields of a      *)
(* message, sorted by key, and its tags, quoting a value that has a blank; *)
(* Parse trims what it gets, cuts off the action and tokenizes the rest,   *)
(* here one turn of tokenize's loop at a time.  There is no escape         *)
(* character.  TrimSpace knows more white space than String and tokenize.  *)
(*                                                                         *)
(* A body is a sequence of symbols: the five that mean something, and the  *)
(* names of the keys, which a value may hold too.  Keys are names (the     *)
(* callers' literals), the action is valid.                                *)
(***************************************************************************)
EXTENDS Naturals, SequencesExt

CONSTANTS MaxFirst, MaxSecond  \* how long the values of the two keys are

ASSUME WireConstants == MaxFirst \in Nat /\ MaxSecond \in Nat

Blank   == " "     \* a space or a tab
NoBreak == "nbsp"  \* other white space of Unicode
Quote   == "\""

White   == {Blank, NoBreak}
Symbols == {Blank, NoBreak, Quote, "=", "#", "a", "b"}
KeyA == <<"a">>
KeyB == <<"b">>

\* A message has some of the keys and at most two tags without white space, or is a
\* SHARING-CONTEXT, which has nothing but a payload.
Fields ==
  LET values == BoundedSeq(Symbols, MaxFirst)
  IN  UNION {{f \in [K -> values] : KeyB \in K => Len(f[KeyB]) <= MaxSecond} :
               K \in SUBSET {KeyA, KeyB}}

Messages ==
  [payload : {<<>>}, sharing : {FALSE}, fields : Fields,
   tags : {<<>>, << <<"a">> >>, << <<"#", "a">>, <<"=">> >>}]
    \cup
  [payload : BoundedSeq(Symbols, MaxFirst), sharing : {TRUE}, fields : {<<>>}, tags : {<<>>}]

VARIABLES sent,      \* the message that is serialised
          body,      \* what Parse has of it behind the action
          pos,       \* i, the position in the body
          fields,    \* msg.Fields
          tags,      \* msg.Tags
          outcome    \* "running", "parsed" or "unclosed quote"

wireVars == <<sent, body, pos, fields, tags, outcome>>

-----------------------------------------------------------------------------
\* Mutant of Value: only a value that starts with a blank is quoted.
ValueQuotedLate(v) ==
  IF v # <<>> /\ Head(v) = Blank THEN <<Quote>> \o v \o <<Quote>> ELSE v

\* A value on the wire.
Value(v) == IF Blank \in ToSet(v) THEN <<Quote>> \o v \o <<Quote>> ELSE v

\* A key with its value, and the n-th tag, if the message has them.
Pair(m, k) ==
  IF k \in DOMAIN m.fields THEN <<Blank>> \o k \o <<"=">> \o Value(m.fields[k]) ELSE <<>>

Hashed(m, n) == IF n \in DOMAIN m.tags THEN <<Blank, "#">> \o m.tags[n] ELSE <<>>

\* String, behind the action: the keys in the order of sort.Strings, then the tags.
String(m) ==
  IF m.sharing THEN IF m.payload = <<>> THEN <<>> ELSE <<Blank>> \o m.payload
  ELSE Pair(m, KeyA) \o Pair(m, KeyB) \o Hashed(m, 1) \o Hashed(m, 2)

\* strings.TrimSpace.
TrimSpace(s) ==
  LET solid == {i \in DOMAIN s : s[i] \notin White}
  IN  IF solid = {} THEN <<>> ELSE SubSeq(s, Min(solid), Max(solid))

\* Where a scan from i stops: at the first of the symbols, or behind the end.
Scan(i, stops) == Min({j \in i..Len(body) : body[j] \in stops} \cup {Len(body) + 1})

At(i) == IF i <= Len(body) THEN body[i] ELSE "end"

\* Parse up to tokenize.
WireInit ==
  /\ sent \in Messages
  /\ body = TrimSpace(String(sent))
  /\ pos = 1
  /\ fields = <<>>
  /\ tags = <<>>
  /\ outcome = "running"

Set(k, v) == [j \in DOMAIN fields \cup {k} |-> IF j = k THEN v ELSE fields[j]]

\* A SHARING-CONTEXT keeps the body as its payload.
RawPayload ==
  /\ outcome = "running" /\ sent.sharing
  /\ outcome' = "parsed"
  /\ UNCHANGED <<sent, body, pos, fields, tags>>

Tokenizing(first) ==
  /\ outcome = "running" /\ ~sent.sharing /\ At(pos) \in first
  /\ UNCHANGED <<sent, body>>

SkipBlank ==
  /\ Tokenizing({Blank})
  /\ pos' = pos + 1
  /\ UNCHANGED <<fields, tags, outcome>>

\* A tag goes to the next blank; an empty one is dropped.
Tag ==
  /\ Tokenizing({"#"})
  /\ LET end == Scan(pos + 1, {Blank})
     IN  /\ tags' = IF end > pos + 1 THEN Append(tags, SubSeq(body, pos + 1, end - 1)) ELSE tags
         /\ pos' = end
  /\ UNCHANGED <<fields, outcome>>

\* A word without "=" is skipped.
BareWord ==
  /\ Tokenizing({NoBreak, Quote, "=", "a", "b"})
  /\ LET end == Scan(pos, {"=", Blank})
     IN  At(end) # "=" /\ pos' = end
  /\ UNCHANGED <<fields, tags, outcome>>

\* A key, and its value up to the closing quote or to the next blank.
KeyValue ==
  /\ Tokenizing({NoBreak, Quote, "=", "a", "b"})
  /\ LET eq  == Scan(pos, {"=", Blank})
         key == SubSeq(body, pos, eq - 1)
     IN  /\ At(eq) = "="
         /\ IF At(eq + 1) = Quote
            THEN LET close == Scan(eq + 2, {Quote})
                 IN  IF close > Len(body)
                     THEN outcome' = "unclosed quote" /\ UNCHANGED <<pos, fields>>
                     ELSE /\ fields' = Set(key, SubSeq(body, eq + 2, close - 1))
                          /\ pos' = close + 1
                          /\ UNCHANGED outcome
            ELSE LET end == Scan(eq + 1, {Blank})
                 IN  /\ fields' = Set(key, SubSeq(body, eq + 1, end - 1))
                     /\ pos' = end
                     /\ UNCHANGED outcome
  /\ UNCHANGED tags

EndOfBody ==
  /\ outcome = "running" /\ ~sent.sharing /\ pos > Len(body)
  /\ outcome' = "parsed"
  /\ UNCHANGED <<sent, body, pos, fields, tags>>

WireNext == RawPayload \/ SkipBlank \/ Tag \/ BareWord \/ KeyValue \/ EndOfBody

WireSpec == WireInit /\ [][WireNext]_wireVars

-----------------------------------------------------------------------------
\* A value survives if it has no quote behind the quote the wire gives it, and
\* starts with none that the wire would take for its own.
Survives(v) ==
  IF Blank \in ToSet(v) THEN Quote \notin ToSet(v) ELSE v = <<>> \/ Head(v) # Quote

\* A message ends with a value that is not quoted and has white space at its end.
EndsBare(m) ==
  /\ m.tags = <<>> /\ DOMAIN m.fields # {}
  /\ LET v == m.fields[IF KeyB \in DOMAIN m.fields THEN KeyB ELSE KeyA]
     IN  v # <<>> /\ Blank \notin ToSet(v) /\ Last(v) = NoBreak

\* Parse gives back what String wrote exactly when every value survives and
\* nothing is trimmed, and a payload when it neither begins nor ends with white
\* space: a value that does not survive is never repaired by what stands behind it
\* or by trimming, and one that does is never spoilt by its neighbours.
RoundTripIsExact ==
  outcome # "running" =>
    IF sent.sharing
    THEN (body = sent.payload) <=> (sent.payload = TrimSpace(sent.payload))
    ELSE (outcome = "parsed" /\ fields = sent.fields /\ tags = sent.tags)
           <=> (\A k \in DOMAIN sent.fields : Survives(sent.fields[k])) /\ ~EndsBare(sent)
=============================================================================
