--------------------------- MODULE AutoconfigJson ---------------------------
(***************************************************************************)
(* The two readings of an autoconfig document (autoconfig/config.rs): it   *)
(* is fetched as XML, and may be saved as JSON and read back. The XML      *)
(* reader hands the text of an element in a field `#text'; the fields read *)
(* through `text_enum' expect that field, from whatever reader.            *)
(*                                                                         *)
(*   document: a sequence of servers [socket : Option, auth : sequence]    *)
(*   saved:    the same, each value in a form: a bare text, an object with *)
(*             a `#text', null, or no field at all                         *)
(***************************************************************************)
EXTENDS Naturals, Sequences

CONSTANTS
  Sockets, Methods,  \* texts of the two fields
  MaxServers

VARIABLES
  pc,        \* "fetch", "save", "load" or "done"
  document,  \* the document, as fetched
  saved,     \* its JSON form
  loaded     \* what is read back, as a set of at most one document

vars == <<pc, document, saved, loaded>>

Bare(text) == [form |-> "bare", text |-> text]
Wrapped(text) == [form |-> "wrapped", text |-> text]
Null == [form |-> "null", text |-> "none"]
Absent == [form |-> "absent", text |-> "none"]

Each(F(_), s) == [k \in DOMAIN s |-> F(s[k])]
Option(F(_), option, none) == IF option = {} THEN none ELSE F(CHOOSE x \in option : TRUE)

(* An element that is missing from the XML has no field.                   *)
FromElements(d) ==
  LET server(s) == [socket |-> Option(Wrapped, s.socket, Absent), auth |-> Each(Wrapped, s.auth)]
  IN  Each(server, d)

(* Every field is saved, a missing value as null.                          *)
ToJson(d) ==
  LET server(s) == [socket |-> Option(Bare, s.socket, Null), auth |-> Each(Bare, s.auth)]
  IN  Each(server, d)

(* `text_enum': one text in another form, and the document is refused.     *)
Reads(s) ==
  /\ s.socket.form \in {"wrapped", "absent"}
  /\ \A k \in DOMAIN s.auth : s.auth[k].form = "wrapped"

Read(d) ==
  LET text(value) == value.text
      server(s) == [socket |-> IF s.socket.form = "absent" THEN {} ELSE {s.socket.text},
                    auth |-> Each(text, s.auth)]
  IN  IF \A k \in DOMAIN d : Reads(d[k]) THEN {Each(server, d)} ELSE {}

Init == pc = "fetch" /\ document = <<>> /\ saved = <<>> /\ loaded = {}

Fetch(published) ==
  /\ pc = "fetch"
  /\ document' \in Read(FromElements(published))
  /\ pc' = "save"
  /\ UNCHANGED <<saved, loaded>>

Save ==
  /\ pc = "save"
  /\ saved' = ToJson(document)
  /\ pc' = "load"
  /\ UNCHANGED <<document, loaded>>

Load ==
  /\ pc = "load"
  /\ loaded' = Read(saved)
  /\ pc' = "done"
  /\ UNCHANGED <<document, saved>>

UpTo(n, S) == UNION {[1 .. k -> S] : k \in 0 .. n}

Published ==
  UpTo(MaxServers, [socket : {{}} \cup {{s} : s \in Sockets}, auth : UpTo(2, Methods)])

Next ==
  \/ \E published \in Published : Fetch(published)
  \/ Save
  \/ Load

Spec == Init /\ [][Next]_vars

-----------------------------------------------------------------------------
(* What was saved as JSON is read back as the same document.               *)
RoundTrips == pc = "done" => loaded = {document}
=============================================================================
