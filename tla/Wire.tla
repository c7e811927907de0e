-------------------------------- MODULE Wire --------------------------------
(***************************************************************************)
(* What the two ends of a stream say before its bytes are piped            *)
(* (src/protocol.rs), and the control frame a typed service adds           *)
(* (tightbeam-handler/src/wire.rs).                                        *)
(*                                                                         *)
(* A byte is a number.  A length field, two bytes on the wire, is one      *)
(* number up to MaxString.  An optional string is a sequence of at most    *)
(* one.  Each reader takes the bytes that have arrived and answers with    *)
(* what it read and the bytes it left, that it needs more, or why it       *)
(* fails; it never takes a byte past the field it reads.                   *)
(***************************************************************************)
EXTENDS Naturals, Sequences, SequencesExt

CONSTANTS
  MaxString,  \* u16::MAX, the longest string a length field can claim
  MaxDetail,  \* RefusalDetail::MAX_LEN
  MaxFrame    \* Frame::MAX of the typed service

ASSUME WireAssumption ==
  /\ MaxString \in Nat /\ MaxDetail \in 0..MaxString /\ MaxFrame \in Nat \ {0}

Identity == <<84, 66>>                \* "TB"
Version  == <<48, 52>>                \* "04"
Magic    == Identity \o Version
Capitals == 65..90
NotText  == 255                       \* a byte no UTF-8 string has

IsText(s) == \A i \in DOMAIN s : s[i] # NotText
-----------------------------------------------------------------------------
(* Readers *)

More         == [read |-> "more"]
Fails(why)   == [read |-> why]
Gives(v, b)  == [read |-> "done", value |-> v, rest |-> b]

\* Read on where `r` stopped, as `?` does.  (Bound, so as to be read once.)
Then(r, Reader(_, _)) ==
  CHOOSE next \in {IF q.read = "done" THEN Reader(q.value, q.rest) ELSE q : q \in {r}} :
    TRUE

ReadByte(b) == IF b = <<>> THEN More ELSE Gives(Head(b), Tail(b))

\* read_exact
ReadBytes(n, b) ==
  IF Len(b) < n THEN More
                ELSE Gives(SubSeq(b, 1, n), SubSeq(b, n + 1, Len(b)))

Texts(s, b) == IF IsText(s) THEN Gives(s, b) ELSE Fails("bad")

ReadStr(b) == Then(Then(ReadByte(b), ReadBytes), Texts)

ReadOpt(b) ==
  Then(ReadByte(b), LAMBDA tag, b1 :
    CASE tag = 0 -> Gives(<<>>, b1)
      [] tag = 1 -> Then(ReadStr(b1), LAMBDA s, b2 : Gives(<<s>>, b2))
      [] OTHER   -> Fails("bad"))

\* Mutant: the identity is a prefix, however the run of capitals goes on.
ReadVersionAny(b) == ReadBytes(2, b)

\* A capital after the identity names a longer one, which is another wire.
ReadVersion(b) ==
  Then(ReadBytes(2, b), LAMBDA v, b1 :
    IF v[1] \in Capitals THEN Fails("foreign") ELSE Gives(v, b1))

ReadPreamble(b) ==
  Then(Then(ReadBytes(2, b), LAMBDA id, b1 :
         IF id # Identity THEN Fails("foreign") ELSE ReadVersion(b1)),
       LAMBDA v, b2 : IF v # Version THEN Fails("version") ELSE Gives(v, b2))

ReadBody(b) ==
  Then(ReadStr(b), LAMBDA service, b1 :
  Then(ReadOpt(b1), LAMBDA capability, b2 :
  Then(ReadOpt(b2), LAMBDA membership, b3 :
    Gives([service |-> service, capability |-> capability,
           membership |-> membership], b3))))

\* Request::read
ReadRequest(b) == Then(ReadPreamble(b), LAMBDA v, b1 : ReadBody(b1))

ReadDetail(b) ==
  Then(ReadByte(b), LAMBDA n, b1 :
    IF n > MaxDetail THEN Fails("bad") ELSE Then(ReadBytes(n, b1), Texts))

Codes == [notAdmitted |-> 0, badRequest |-> 1, unavailable |-> 2]
Classes == DOMAIN Codes

ReadRefusal(b) ==
  Then(ReadByte(b), LAMBDA code, b1 :
    CASE code = Codes.notAdmitted -> Gives("notAdmitted", b1)
      [] code = Codes.badRequest  ->
           Then(ReadDetail(b1), LAMBDA s, b2 : Gives("badRequest", b2))
      [] code = Codes.unavailable ->
           Then(ReadDetail(b1), LAMBDA s, b2 : Gives("unavailable", b2))
      [] OTHER -> Fails("bad"))

\* Response::read
ReadResponse(b) ==
  Then(ReadByte(b), LAMBDA tag, b1 :
    CASE tag = 0 -> Gives("ok", b1)
      [] tag = 1 -> ReadRefusal(b1)
      [] OTHER   -> Fails("bad"))

\* Mutant: the length a head names counts the head.
ReadFrameShort(b) ==
  Then(ReadByte(b), LAMBDA n, b1 :
    IF n > MaxFrame THEN Fails("tooLong") ELSE ReadBytes(IF n = 0 THEN 0 ELSE n - 1, b1))

\* read_frame, of a wire whose head is one byte that names what follows it.
ReadFrame(b) ==
  Then(ReadByte(b), LAMBDA n, b1 :
    IF 1 + n > MaxFrame THEN Fails("tooLong") ELSE ReadBytes(n, b1))
-----------------------------------------------------------------------------
(* Writers: the bytes that are written, and whether the write succeeds.    *)

Fits(s)      == Len(s) <= MaxString
Str(s)       == <<Len(s)>> \o s
Opt(o)       == IF o = <<>> THEN <<0>> ELSE <<1>> \o Str(o[1])
OptFits(o)   == o = <<>> \/ Fits(o[1])

\* Request::write, field by field: a string too long for its length field
\* fails the write with what comes before it already on the stream.
RequestFrame(magic, r) ==
  LET service    == magic \o Str(r.service)
      capability == service \o Opt(r.capability)
  IN CASE ~Fits(r.service) -> [bytes |-> magic, whole |-> FALSE]
       [] Fits(r.service) /\ ~OptFits(r.capability) ->
            [bytes |-> service \o <<1>>, whole |-> FALSE]
       [] Fits(r.service) /\ OptFits(r.capability) /\ ~OptFits(r.membership) ->
            [bytes |-> capability \o <<1>>, whole |-> FALSE]
       [] OTHER -> [bytes |-> capability \o Opt(r.membership), whole |-> TRUE]

\* Response::write; the detail of a refusal is bounded before it gets here.
ResponseFrame(answer, detail) ==
  CASE answer = "ok"          -> <<0>>
    [] answer = "notAdmitted" -> <<1, Codes.notAdmitted>>
    [] OTHER                  -> <<1, Codes[answer]>> \o Str(detail)

\* write_frame: a frame over the cap is not written at all.
FrameOf(payload) ==
  IF 1 + Len(payload) > MaxFrame THEN <<>> ELSE Str(payload)
=============================================================================
