------------------------------- MODULE Names -------------------------------
(***************************************************************************)
(* Names and references as text: the name made from a title or a file      *)
(* name, the two parsers of references and the two ways to print one, and  *)
(* the completion of a username or a profile ID from the profile store.    *)
(*                                                                         *)
(* A title is a sequence of characters, one or two for each class the code *)
(* tells apart; a reference is a sequence of the words and signs it is     *)
(* made of.  "sample" is the input under test.                             *)
(***************************************************************************)
EXTENDS Naturals, Sequences, SequencesExt

CONSTANTS MaxText,        \* BOUND: characters of a title
          NameMaxLength   \* 44 in the code

ASSUME NamesLengthAssumption == MaxText \in Nat /\ NameMaxLength \in Nat \ {0}

VARIABLE sample

-----------------------------------------------------------------------------
(***************************************************************************)
(* GenerateName.                                                           *)
(***************************************************************************)
Lowers == {"a", "b"}
Chars == Lowers \union {"B", "1", "!", "_", "-", " ", "other"}   \* "other": not ascii, or a control

kindOf(r) ==
  CASE r \in Lowers -> "lower" [] r = "B" -> "upper" [] r = "1" -> "digit" [] r = " " -> "space"
    [] r = "!" -> "punc" [] r \in {"_", "-"} -> "sep" [] OTHER -> "none"

isAlphanum(r) == kindOf(r) \in {"lower", "upper", "digit"}
ToLower(s) == [i \in DOMAIN s |-> IF s[i] = "B" THEN "b" ELSE s[i]]
Start0 == [state |-> "none", result |-> <<>>, next |-> <<>>]

\* flushWord: the word, behind an underscore when two words would touch, goes to the
\* result; when it is too long the result stays as it is, or is the word's beginning.
flushWord(st, nextState, nextRune) ==
  LET plain == ToLower(st.next)
      word  == IF st.result # <<>> /\ isAlphanum(Last(st.result)) /\ isAlphanum(plain[1])
               THEN <<"_">> \o plain ELSE plain
  IN  IF st.next = <<>> THEN st
      ELSE IF Len(st.result) + Len(word) > NameMaxLength
      THEN [st EXCEPT !.state = "exit", !.result = IF @ = <<>> THEN SubSeq(word, 1, NameMaxLength) ELSE @]
      ELSE [state |-> nextState, result |-> st.result \o word, next |-> <<nextRune>>]

\* The state of a word that r begins or goes on.
WordState(st, r) ==
  CASE kindOf(r) = "lower" -> "lower" [] kindOf(r) = "digit" -> "number"
    [] OTHER -> IF st.state \in {"first", "caps"} THEN "caps" ELSE "first"

\* r belongs to the word that is being read.
Joins(st, r) == \/ st.state = "none"
                \/ kindOf(r) = "lower" /\ st.state \in {"lower", "first"}
                \/ kindOf(r) = "upper" /\ st.state \in {"first", "caps"}
                \/ kindOf(r) = "digit" /\ st.state = "number"

\* One character of convertWordsStateMachine.  After capitals a small letter takes
\* the last capital with it (NBCTelevision).
Step(st, r) ==
  LET k == kindOf(r)  put(c) == [st EXCEPT !.next = Append(@, c)] IN
  IF st.state = "exit" \/ k = "none" THEN st
  ELSE IF k = "space" THEN IF st.state = "none" THEN put("_") ELSE IF st.state = "punc" THEN st ELSE flushWord(st, "none", "_")
  ELSE IF k = "punc" THEN IF st.state = "none" THEN [put(r) EXCEPT !.state = "punc"]
                      ELSE IF st.state = "punc" THEN put("-") ELSE flushWord(st, "punc", "-")
  ELSE IF k = "sep" THEN IF st.state = "none" THEN put("-") ELSE flushWord(st, "none", r)
  ELSE IF k = "lower" /\ st.state = "caps" THEN
         LET split == flushWord([st EXCEPT !.next = Front(@)], "lower", Last(st.next))
         IN  [split EXCEPT !.next = Append(@, r)]
  ELSE IF isAlphanum(r) /\ Joins(st, r) THEN [put(r) EXCEPT !.state = WordState(st, r)]
  ELSE flushWord(st, WordState(st, r), r)

\* MUTANT: the last word is left in the buffer.
convertWordsUnflushed(input) == FoldLeft(Step, Start0, input).result

convertWordsStateMachine(input) == flushWord(FoldLeft(Step, Start0, input), "none", "other").result

\* TrimSpace.
Trim(s) == LET on == {i \in DOMAIN s : s[i] # " "} IN
           IF on = {} THEN <<>>
           ELSE SubSeq(s, CHOOSE i \in on : \A j \in on : i <= j, CHOOSE i \in on : \A j \in on : i >= j)

\* GenerateName: it panics on a name without a character.
GenerateName(input, prefix) ==
  LET name == convertWordsStateMachine(Trim(input)) IN
  [ok   |-> name # <<>>,
   name |-> IF name # <<>> /\ kindOf(name[1]) # "lower" THEN prefix \o name ELSE name]

\* EnsureValidName (dsNameCheck, and no capitals).
EnsureValidName(s) == /\ s # <<>> /\ kindOf(s[1]) = "lower"
                      /\ \A i \in DOMAIN s : kindOf(s[i]) \in {"lower", "digit", "sep"}

-----------------------------------------------------------------------------
(***************************************************************************)
(* References.  A field is a sequence of words, <<>> is "".                *)
(***************************************************************************)
Ids    == {"id32", "Qm1"}
Words  == {"user", "name", "Name", "mem", "ipfs", "web", "Qm1", "Qm2"}
Hashes == {"Qm1", "Qm2"}

Ref(username, name, pid, init, path) ==
  [Username |-> username, Name |-> name, ProfileID |-> pid, InitID |-> init, Path |-> path]
NoFields == Ref(<<>>, <<>>, <<>>, <<>>, <<>>)

Human(r) == r.Username \o IF r.Name # <<>> THEN <<"/">> \o r.Name ELSE <<>>
String(r) == Human(r) \o (IF r.InitID # <<>> \/ r.Path # <<>> THEN <<"@">> ELSE <<>>) \o r.InitID \o r.Path
LegacyProfileIDString(r) ==
  Human(r) \o (IF r.InitID # <<>> \/ r.Path # <<>> THEN <<"@">> ELSE <<>>) \o r.ProfileID \o r.Path

Has(t, i, set) == i <= Len(t) /\ t[i] \in set
From(t, i) == IF i > Len(t) THEN <<>> ELSE SubSeq(t, i, Len(t))

\* parseHumanFriendlyPortion: ErrParseError ("none") leaves the rest to the next part.
parseHumanFriendlyPortion(t) ==
  IF ~Has(t, 1, Words) THEN [end |-> "none", rest |-> t, user |-> <<>>, name |-> <<>>]
  ELSE IF Len(t) = 1 THEN [end |-> "alone", rest |-> <<>>, user |-> <<t[1]>>, name |-> <<>>]
  ELSE IF ~(Has(t, 2, {"/"}) /\ Has(t, 3, Words)) THEN [end |-> "error", rest |-> t, user |-> <<t[1]>>, name |-> <<>>]
  ELSE [end |-> "ok", rest |-> From(t, 4), user |-> <<t[1]>>, name |-> <<t[3]>>]

\* MUTANT: any network will do.
parseConcreteRefAnyNetwork(t) ==
  LET k == IF Has(t, 2, Ids) THEN 1 ELSE 0
      id == IF k = 1 THEN <<t[2]>> ELSE <<>> IN
  IF ~(Has(t, 1, {"@"}) /\ Has(t, 2 + k, {"/"}) /\ Has(t, 3 + k, Words) /\ Has(t, 4 + k, {"/"}) /\ Has(t, 5 + k, Hashes))
  THEN [end |-> "none", rest |-> t, ref |-> NoFields]
  ELSE [end |-> "ok", rest |-> From(t, 6 + k),
        ref |-> Ref(<<>>, <<>>, IF id = <<"Qm1">> THEN id ELSE <<>>, IF id = <<"id32">> THEN id ELSE <<>>,
                    SubSeq(t, 2 + k, 5 + k))]

parseConcreteRef(t) ==
  LET k == IF Has(t, 2, Ids) THEN 1 ELSE 0
      id == IF k = 1 THEN <<t[2]>> ELSE <<>> IN
  IF ~(Has(t, 1, {"@"}) /\ Has(t, 2 + k, {"/"}) /\ Has(t, 3 + k, Words) /\ Has(t, 4 + k, {"/"}) /\ Has(t, 5 + k, Hashes))
  THEN [end |-> "none", rest |-> t, ref |-> NoFields]
  ELSE IF t[3 + k] \notin {"mem", "ipfs"} THEN [end |-> "error", rest |-> t, ref |-> NoFields]
  ELSE [end |-> "ok", rest |-> From(t, 6 + k),
        ref |-> Ref(<<>>, <<>>, IF id = <<"Qm1">> THEN id ELSE <<>>, IF id = <<"id32">> THEN id ELSE <<>>,
                    SubSeq(t, 2 + k, 5 + k))]

\* parse: a capital in the name is an error that comes with the reference.
parse(t, peerRef) ==
  LET h == parseHumanFriendlyPortion(t)  c == parseConcreteRef(h.rest)
      r == [c.ref EXCEPT !.Username = h.user, !.Name = h.name] IN
  CASE t = <<>> \/ h.end = "error" -> [end |-> "error", ref |-> NoFields]
    [] h.end = "alone" -> [end |-> IF peerRef THEN "ok" ELSE "error", ref |-> [NoFields EXCEPT !.Username = h.user]]
    [] OTHER -> [end |-> IF c.end = "error" \/ c.rest # <<>> THEN "error"
                         ELSE IF r.Name = <<"Name">> THEN "badcase" ELSE "ok", ref |-> r]

\* ParseHumanFriendly: nothing but a username and a name.
ParseHumanFriendly(t) ==
  LET h == parseHumanFriendlyPortion(t) IN
  [end |-> IF t = <<>> \/ h.end # "ok" \/ h.rest # <<>> THEN "error" ELSE IF h.name = <<"Name">> THEN "badcase" ELSE "ok",
   ref |-> [NoFields EXCEPT !.Username = h.user, !.Name = h.name]]

\* strings.Split: the pieces of t between the signs.
Split(t, sign) ==
  FoldLeft(LAMBDA out, w : IF w = sign THEN Append(out, <<>>) ELSE Append(Front(out), Append(Last(out), w)), <<<<>>>>, t)
isHash(seg) == Len(seg) = 1 /\ seg[1] \in Hashes
IdOf(seg) == IF isHash(seg) THEN seg ELSE <<>>      \* IDB58Decode

\* ParseDatasetRef with an "@" (parseAlias, parseIdentifiers).
ParseWithAt(t) ==
  LET at == CHOOSE i \in DOMAIN t : t[i] = "@" /\ \A j \in 1 .. i - 1 : t[j] # "@"
      alias == Split(SubSeq(t, 1, at - 1), "/")
      ids == Split(From(t, at + 1), "/") IN
  [NoFields EXCEPT !.Username = alias[1], !.Name = IF Len(alias) >= 2 THEN alias[2] ELSE <<>>,
     !.ProfileID = IdOf(ids[1]),
     !.Path = CASE Len(ids) = 1 -> <<>>
                [] Len(ids) = 2 -> IF isHash(ids[1]) /\ isHash(ids[2]) THEN <<"/", "ipfs", "/">> \o ids[2] ELSE ids[2]
                [] OTHER -> <<"/">> \o ids[2] \o <<"/">> \o ids[3]]

\* Without one: the first hash is a profile ID, the second begins a path, behind the
\* network that is before it; words are the username, then the name, then a path.
ParseWithoutAt(t) ==
  LET segs == Split(t, "/")
      rest(i) == FoldLeft(LAMBDA p, j : p \o <<"/">> \o segs[j], segs[i], [k \in 1 .. Len(segs) - i |-> i + k])
      one(r, i) ==
        IF r.Path # <<>> THEN r
        ELSE IF isHash(segs[i]) /\ r.ProfileID = <<>> THEN [r EXCEPT !.ProfileID = segs[i]]
        ELSE IF isHash(segs[i]) THEN [r EXCEPT !.Path = <<"/">> \o (IF isHash(segs[i - 1]) THEN <<"ipfs">> ELSE segs[i - 1]) \o <<"/">> \o rest(i)]
        ELSE IF r.Username = <<>> THEN [r EXCEPT !.Username = segs[i]]
        ELSE IF r.Name = <<>> THEN [r EXCEPT !.Name = segs[i]]
        ELSE [r EXCEPT !.Path = rest(i)]
  IN  FoldLeft(one, NoFields, [i \in DOMAIN segs |-> i])

ParseDatasetRef(t) == IF \E i \in DOMAIN t : t[i] = "@" THEN ParseWithAt(t) ELSE ParseWithoutAt(t)

-----------------------------------------------------------------------------
(***************************************************************************)
(* canonicalizeProfile.  Profile 1 is the owner; name and ID 0 are "".     *)
(***************************************************************************)
MeName == 9
Known == {1, 2}       \* the profiles of the store; nameOf: their usernames, no two alike

\* MUTANT: only the username is looked up, the ID that comes with it stays.
canonicalizeProfileByName(r, nameOf) ==
  LET owner == nameOf[1]
      mine == r.peer \in {MeName, owner} \/ r.id = 1
      ids  == {i \in Known : nameOf[i] = r.peer}
      ok(x) == [ok |-> TRUE, ref |-> x] IN
  IF r.peer = 0 /\ r.id = 0 THEN ok(r)
  ELSE IF mine THEN ok([peer |-> owner, id |-> 1])
  ELSE IF r.id \in Known /\ r.peer = 0 THEN ok([r EXCEPT !.peer = nameOf[r.id]])
  ELSE IF r.peer # 0 /\ ids # {} /\ r.id = 0 THEN ok([r EXCEPT !.id = CHOOSE i \in ids : TRUE])
  ELSE ok(r)

canonicalizeProfile(r, nameOf) ==
  LET owner == nameOf[1]
      mine == r.peer \in {MeName, owner} \/ r.id = 1
      me   == IF r.peer = MeName THEN [peer |-> owner, id |-> 1] ELSE r
      ids  == {i \in Known : nameOf[i] = r.peer}
      ok(x) == [ok |-> TRUE, ref |-> x]
      no    == [ok |-> FALSE, ref |-> r] IN
  IF r.peer = 0 /\ r.id = 0 THEN ok(r)
  ELSE IF mine THEN IF me.peer = owner /\ me.id \notin {0, 1} THEN no ELSE ok([peer |-> owner, id |-> 1])
  ELSE IF r.id \in Known /\ r.peer = 0 THEN ok([r EXCEPT !.peer = nameOf[r.id]])
  ELSE IF r.id \in Known /\ r.peer # nameOf[r.id] THEN no
  ELSE IF r.peer # 0 /\ ids # {} /\ r.id = 0 THEN ok([r EXCEPT !.id = CHOOSE i \in ids : TRUE])
  ELSE IF r.peer # 0 /\ ids # {} /\ r.id \notin ids THEN no
  ELSE ok(r)

-----------------------------------------------------------------------------
NamesInit ==
  \/ sample = [kind |-> "title", text |-> <<>>]
  \/ \E user \in {<<>>, <<"user">>, <<"Qm1">>}, name \in {<<>>, <<"name">>, <<"Name">>},
        pid \in {<<>>, <<"Qm1">>}, init \in {<<>>, <<"id32">>},
        path \in {<<>>} \union {<<"/", net, "/", "Qm2">> : net \in {"mem", "ipfs", "web"}} :
       sample = [kind |-> "ref", ref |-> Ref(user, name, pid, init, path)]
  \/ \E peer \in {0, 1, 2, 3, MeName}, id \in 0 .. 3, owner, other \in 1 .. 3 :
       owner # other /\ sample = [kind |-> "profile", ref |-> [peer |-> peer, id |-> id], nameOf |-> <<owner, other>>]

\* One more character of the title.
NamesNext == \E c \in Chars :
  /\ sample.kind = "title" /\ Len(sample.text) < MaxText
  /\ sample' = [sample EXCEPT !.text = Append(@, c)]

-----------------------------------------------------------------------------
\* Punctuation that is taken as it is: at the start, behind a space that follows no
\* punctuation, or behind a dash or an underscore.
Verbatim(s) ==
  \E i \in DOMAIN s : /\ s[i] = "!"
                      /\ LET b == {j \in 1 .. i - 1 : s[j] \notin {" "}}
                             p == IF b = {} THEN 0 ELSE CHOOSE j \in b : \A k \in b : k <= j
                         IN  p = 0 \/ s[p] \in {"_", "-"} \/ (p < i - 1 /\ s[p] # "!")

Letters(s) == ToLower(SelectSeq(s, isAlphanum))

\* The generated name is a valid dataset name that is not too long, and its letters
\* and digits are those of the title, in order, up to the word at which it was cut;
\* except for titles with punctuation at the start, or behind a space, a dash or
\* an underscore (dsref.GenerateName, convertWordsStateMachine).
GeneratedNameValid ==
  sample.kind = "title" =>
    LET in  == SelectSeq(Trim(sample.text), LAMBDA c : c # "other")
        got == GenerateName(sample.text, <<"a">>)
        own == IF got.ok /\ kindOf(convertWordsStateMachine(Trim(sample.text))[1]) # "lower" THEN Tail(got.name) ELSE got.name IN
    (got.ok /\ ~Verbatim(in)) =>
      /\ EnsureValidName(got.name)
      /\ Len(own) <= NameMaxLength
      /\ IsPrefix(Letters(own), Letters(in))
      /\ 2 * Len(in) <= NameMaxLength => Letters(own) = Letters(in)

\* A reference can be read back as it is written when it has a username and a name or
\* neither, and no init ID without a path; and the network is one that is known.
Printable(r) == /\ (r.Username = <<>>) = (r.Name = <<>>)
                /\ r.InitID # <<>> => r.Path # <<>>
                /\ r.Path # <<>> => r.Path[2] # "web"
                /\ r # [NoFields EXCEPT !.ProfileID = r.ProfileID]

\* Printing a reference and parsing it gives the reference, and everything else is
\* refused, never another reference; what ParseHumanFriendly accepts parse reads the
\* same way; and the form that is sent to a remote, with the profile ID, is read by
\* the older parser of the receiver as it was meant (dsref.Ref.String, dsref.parse,
\* LegacyProfileIDString, repo.ParseDatasetRef).
RefRoundTrip ==
  sample.kind = "ref" =>
    LET r == sample.ref  p == parse(String(r), FALSE)  h == ParseHumanFriendly(String(r))
        sent == ParseDatasetRef(LegacyProfileIDString(r)) IN
    /\ p.end \in {"ok", "badcase"} <=> Printable(r)
    /\ p.end \in {"ok", "badcase"} => p.ref = [r EXCEPT !.ProfileID = <<>>]
    /\ h.end # "error" => p.end = h.end /\ p.ref = h.ref
    /\ (r.InitID # <<>> \/ r.Path # <<>>) => sent = [r EXCEPT !.InitID = <<>>]
    /\ (r.InitID = <<>> /\ r.Path = <<>> /\ r.ProfileID = <<>> /\ r.Username = <<"user">>) => sent = r

\* A username and a profile ID that were completed belong together and stay as they
\* are when they are completed again, also for a profile that was renamed
\* (repo.canonicalizeProfile).
CanonicalStable ==
  sample.kind = "profile" =>
    LET c == canonicalizeProfile(sample.ref, sample.nameOf) IN
    c.ok => /\ canonicalizeProfile(c.ref, sample.nameOf) = c
            /\ c.ref.id \in Known => c.ref.peer = sample.nameOf[c.ref.id]
            /\ \A i \in Known : c.ref.peer = sample.nameOf[i] => c.ref.id = i

\* What a name says is kept: when it is made from a title (GeneratedNameValid), printed and
\* parsed (RefRoundTrip), and completed from the profiles (CanonicalStable).
NamesKept == GeneratedNameValid /\ RefRoundTrip /\ CanonicalStable
=============================================================================
