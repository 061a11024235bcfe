-------------------------------- MODULE Wire --------------------------------
(***************************************************************************)
(* The hello frames of the wire protocol (wire.go), on the bytes of a      *)
(* stream that may end anywhere.                                           *)
(*                                                                         *)
(* A byte is a natural number.  Of the bytes a name may be made of the     *)
(* model has one letter and the hyphen, and names are at most MaxNameLen   *)
(* long, which is 63 in the code.                                          *)
(***************************************************************************)
EXTENDS Naturals, Sequences, SequencesExt

CONSTANT MaxNameLen
ASSUME MaxNameLenAssumption == MaxNameLen \in Nat \ {0}

Version == 1
Hyphen  == 45
Letter  == 97

StatusOK == 0
StatusDenied == 1
StatusBackendUnavailable == 2
StatusRateLimited == 3
StatusMalformed == 4
Statuses == 0..4

ValidServiceName(name) ==
    /\ Len(name) \in 1..MaxNameLen
    /\ name[1] = Letter
    /\ \A i \in DOMAIN name : name[i] \in {Letter, Hyphen}

\* writeHelloRequest and writeHelloResponse.
HelloRequest(name) == <<Version, Len(name)>> \o name
HelloResponse(status) == <<Version, status>>

\* What a read of a frame may come to: it blocks for more bytes, it fails
\* with an I/O error, the frame is malformed, or it is good.
Result(kind, value, used) == [kind |-> kind, value |-> value, used |-> used]
Blocks    == Result("blocks", <<>>, 0)
IOError   == Result("io", <<>>, 0)
Malformed == Result("malformed", <<>>, 0)

\* Defective variant of ReadHelloRequest: a Read where a ReadFull belongs.
ReadHelloRequestOnce(s, ended) ==
    CASE Len(s) < 2 -> IF ended THEN IOError ELSE Blocks
      [] Len(s) >= 2 /\ (s[1] # Version \/ s[2] \notin 1..MaxNameLen) -> Malformed
      [] OTHER ->
            LET name == SubSeq(s, 3, IF Len(s) < 2 + s[2] THEN Len(s) ELSE 2 + s[2])
            IN  IF ValidServiceName(name) THEN Result("ok", name, 2 + Len(name)) ELSE Malformed

\* readHelloRequest, where "ended" says that no more bytes will come: the
\* stream is at its end, or the deadline fires.  Ending within the header is
\* an I/O error, ending within the name is a malformed frame.
ReadHelloRequest(s, ended) ==
    CASE Len(s) < 2 -> IF ended THEN IOError ELSE Blocks
      [] Len(s) >= 2 /\ (s[1] # Version \/ s[2] \notin 1..MaxNameLen) -> Malformed
      [] OTHER ->
            LET name == SubSeq(s, 3, 2 + s[2])
            IN  IF Len(s) < 2 + s[2] THEN IF ended THEN Malformed ELSE Blocks
                ELSE IF ValidServiceName(name) THEN Result("ok", name, 2 + s[2]) ELSE Malformed

\* readHelloResponse: an unknown status is never a success.
ReadHelloResponse(s, ended) ==
    CASE Len(s) < 2 -> IF ended THEN IOError ELSE Blocks
      [] Len(s) >= 2 /\ s[1] = Version /\ s[2] \in Statuses -> Result("ok", s[2], 2)
      [] OTHER -> Malformed
=============================================================================
