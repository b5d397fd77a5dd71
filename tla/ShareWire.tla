-------------------------------- MODULE ShareWire --------------------------------
(***************************************************************************)
(* What goes over the wire when one Mac asks another for its reading: the  *)
(* text encode and http_response make of a reading, and what decode and    *)
(* parse_response make of whatever arrived (src/share.rs).                 *)
(*                                                                         *)
(* A text is a sequence of units.  A number is two of them, so that a text *)
(* cut inside a number still holds one, a wrong one.  The eleven memory    *)
(* numbers, all required, are one; so are name and model with them, and    *)
(* the three GPU numbers, of which the first decides.                      *)
(***************************************************************************)
EXTENDS Naturals, Sequences, FiniteSets

Field == {"memory", "cpu_user_percent", "cpu_system_percent", "gpu_percent"}

\* A reading has, for each field, the units of its number: none, when it has no such
\* number, or from 1 up to 2.
NoNumber == {}
Whole == {1, 2}
SharedReading == [Field -> {NoNumber, {1}, Whole}]
NoReading == [f \in Field |-> NoNumber]

Without(reading, fields) == [f \in Field |-> IF f \in fields THEN NoNumber ELSE reading[f]]

Unit(key, value) == [key |-> key, value |-> value]

--------------------------------------------------------------------------------
(* The side that answers *)

SHARE_VERSION == Unit("version", 1)
BlankLine == Unit("blank", 0)

\* One key=value line: nothing for a number the reading does not have.
Line(reading, field) ==
  [i \in 1 .. Cardinality(reading[field]) |-> Unit(field, i)]

Encode(reading) ==
  <<SHARE_VERSION>> \o Line(reading, "memory")
    \o Line(reading, "cpu_user_percent") \o Line(reading, "cpu_system_percent")
    \o Line(reading, "gpu_percent")

HttpResponse(status, body) ==
  <<Unit("HTTP/1.0", status), Unit("Content-Length", Len(body)), BlankLine>> \o body

--------------------------------------------------------------------------------
(* The side that asks *)

\* What the body says of a field, under its key.
Number(body, field) == {body[i].value : i \in {j \in DOMAIN body : body[j].key = field}}

\* Another version or a missing memory number is no reading; a CPU number without the
\* other is no CPU.
Decode(body) ==
  LET fields == [f \in Field |-> Number(body, f)]
      cpu == {"cpu_user_percent", "cpu_system_percent"}
  IN  IF body = <<>> \/ Head(body) # SHARE_VERSION \/ fields["memory"] = NoNumber
      THEN NoReading
      ELSE IF \E f \in cpu : fields[f] = NoNumber THEN Without(fields, cpu)
      ELSE fields

\* Where the head ends: the first blank line, or nowhere.
HeadEnds(response) ==
  {i \in DOMAIN response : response[i] = BlankLine
                             /\ \A j \in 1 .. i - 1 : response[j] # BlankLine}

\* The length the head states.
ContentLength(head) == {head[i].value : i \in {j \in DOMAIN head : head[j].key = "Content-Length"}}

AnyLength(body, lengths) == lengths # {}

\* The body is exactly as long as the head says.
IsWhole(body, lengths) == lengths = {Len(body)}

\* A whole 200 answer, or no reading.
ParseResponse(response) ==
  IF HeadEnds(response) = {} THEN NoReading
  ELSE LET end == CHOOSE i \in HeadEnds(response) : TRUE
           head == SubSeq(response, 1, end - 1)
           body == SubSeq(response, end + 1, Len(response))
       IN  IF /\ head # <<>> /\ Head(head) = Unit("HTTP/1.0", 200)
              /\ IsWhole(body, ContentLength(head))
           THEN Decode(body) ELSE NoReading

================================================================================
