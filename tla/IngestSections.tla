--------------------------- MODULE IngestSections ---------------------------
(***************************************************************************)
(* What is kept of a report (model/ingest.go, ingest_v4.go, host_info.go,  *)
(* model.go).  The core fields decide whether it is taken, the inventory   *)
(* (host_info, physical_disks) is decoded with them, and each section of   *)
(* protocol 4 by itself; all that is not core is cleaned by itself.  The   *)
(* cleaning functions are pure; a behaviour chooses an input and takes the *)
(* one step that computes it.                                              *)
(*                                                                         *)
(* A text is a sequence of characters, of which "w" has two bytes, "ctl"   *)
(* is a control character and "sp" a space.  A field of a section is       *)
(* absent, in its range or out of it.  Sections of protocol 4 of the same  *)
(* shape are one: fields (cpu_detail, memory_detail, pressure, tcp,        *)
(* capacity), strict (updates, processes), list (disk_io, net_io,          *)
(* temperatures, raid), time (time_sync), services, dns.  The mounts of a  *)
(* physical disk, a bounded list of texts, are left out.                   *)
(***************************************************************************)
EXTENDS Integers, Sequences, SequencesExt

CONSTANTS
    Nil,         \* unknown: a nil pointer, an absent section
    Malformed,   \* a section that does not decode
    Pending,     \* nothing computed yet
    TextLen,     \* bound: characters of a text
    TextMax,     \* the byte limit given to cleanText
    ListLen,     \* bound: entries of a list
    ListMax      \* maxV4Entries and the other list limits

ASSUME IngestAssumption == {TextLen, TextMax, ListLen, ListMax} \subseteq Nat \ {0} /\ Nil # Malformed

VARIABLES given, taken

ivars == <<given, taken>>

\* The report is refused, a pushed one with 400, and nothing of it is kept.
Rejected == [status |-> 400]

Chars == {"a", "w", "sp", "ctl"}
Texts == UNION {[1..n -> Chars] : n \in 0..TextLen}
Field == {Nil, "in", "out"}

\* The entries at those places, in order.
Picked(seq, places) ==
    LET picked[i \in 0..Len(seq)] == IF i = 0 THEN <<>>
                                     ELSE IF i \in places THEN Append(picked[i - 1], seq[i])
                                     ELSE picked[i - 1]
    IN  picked[Len(seq)]

-----------------------------------------------------------------------------
(* cleanText *)

Encoded(char) == IF char = "w" THEN <<"w1", "w2">> ELSE <<char>>
Bytes(text) ==
    LET bytes[i \in 0..Len(text)] == IF i = 0 THEN <<>> ELSE bytes[i - 1] \o Encoded(text[i])
    IN  bytes[Len(text)]
RuneStart(byte) == byte # "w2"

Trim(text) ==
    LET solid == {i \in DOMAIN text : text[i] # "sp"}
    IN  IF solid = {} THEN <<>> ELSE SubSeq(text, Min(solid), Max(solid))

Printable(text) == Picked(text, {i \in DOMAIN text : text[i] # "ctl"})

\* The bytes kept, cut back to the start of a rune.
CleanText(text, max) ==
    LET b == Bytes(Trim(Printable(text)))
        cut == CHOOSE n \in 0..max : (n = 0 \/ RuneStart(b[n + 1]))
                                     /\ \A m \in (n + 1)..max : ~RuneStart(b[m + 1])
    IN  IF Len(b) <= max THEN b ELSE SubSeq(b, 1, cut)

-----------------------------------------------------------------------------
(* The sections *)

Entries == [name: {"", "x", "y"}, fit: BOOLEAN, opt: Field]
Ranged(f) == IF f = "out" THEN Nil ELSE f

\* One entry of sanitizeDiskIO and the like: the limit, the required values,
\* the name (uniqueName), the optional values.
AddEntry(acc, e) ==
    IF Len(acc.out) = ListMax \/ ~e.fit \/ e.name = "" \/ e.name \in acc.seen THEN acc
    ELSE [out |-> Append(acc.out, [e EXCEPT !.opt = Ranged(@)]), seen |-> acc.seen \cup {e.name}]

CleanList(list) ==
    LET acc[i \in 0..Len(list)] == IF i = 0 THEN [out |-> <<>>, seen |-> {}] ELSE AddEntry(acc[i - 1], list[i])
    IN  acc[Len(list)].out

\* sanitizeCPUDetail and the like: a field out of range is unknown, a section
\* of unknown fields is none.
CleanFields(s) ==
    LET out == [f \in DOMAIN s |-> Ranged(s[f])]
    IN  IF \A f \in DOMAIN s : out[f] = Nil THEN Nil ELSE out

\* sanitizeUpdates, sanitizeProcesses, sanitizeStall: a required field out of
\* range drops the section.
CleanStrict(s) == IF s.req = "out" THEN Nil ELSE [s EXCEPT !.opt = Ranged(@)]

\* sanitizeServices
CleanServices(s) ==
    LET out == [s EXCEPT !.items = CleanList(@)]
    IN  IF out.full /\ out.items = <<>> THEN Nil ELSE out

\* sanitizeDNS: the interface of the current server goes with the server.
CleanDNS(s) ==
    IF s.resolver = "out" THEN Nil
    ELSE [s EXCEPT !.iface = IF s.server = Nil THEN Nil ELSE @]

\* One entry of a list in which a name may come again.
KeepEntry(out, e) ==
    IF Len(out) = ListMax \/ ~e.fit \/ e.name = "" THEN out ELSE Append(out, [e EXCEPT !.opt = Ranged(@)])

\* sanitizeTimeSync and sanitizeHostInfo: fields and a list; nothing when neither is left.
CleanMixed(s) ==
    LET out == [a |-> Ranged(s.a), items |-> FoldLeft(KeepEntry, <<>>, s.items)]
    IN  IF out.a = Nil /\ out.items = <<>> THEN Nil ELSE out

\* sanitizePhysicalDisks: a size that cannot be is unknown, the disk stays.
AddDisk(acc, d) ==
    IF Len(acc.out) = ListMax \/ d.name = "" \/ d.name \in acc.seen THEN acc
    ELSE [out |-> Append(acc.out, [d EXCEPT !.size = Ranged(@)]), seen |-> acc.seen \cup {d.name}]

CleanDisks(list) == FoldLeft(AddDisk, [out |-> <<>>, seen |-> {}], list).out

SectionNames == {"fields", "strict", "list", "services", "dns", "time"}
InventoryNames == {"host_info", "physical_disks"}
PartNames == SectionNames \cup InventoryNames

Clean(name, s) ==
    CASE name = "fields" -> CleanFields(s)
      [] name = "strict" -> CleanStrict(s)
      [] name = "list" -> CleanList(s)
      [] name = "services" -> CleanServices(s)
      [] name = "dns" -> CleanDNS(s)
      [] name \in {"time", "host_info"} -> CleanMixed(s)
      [] name = "physical_disks" -> CleanDisks(s)

Absent(name) == IF name \in {"list", "physical_disks"} THEN <<>> ELSE Nil

\* (mutant) the section is decoded with the report
DecodeAll(wire, name) ==
    IF \E n \in SectionNames : wire[n] = Malformed THEN Absent(name)
    ELSE IF wire[name] = Nil THEN Absent(name) ELSE Clean(name, wire[name])

\* ingestWire.request: a section that does not decode is as if it were absent.
Decode(wire, name) ==
    IF wire[name] \in {Nil, Malformed} THEN Absent(name) ELSE Clean(name, wire[name])

\* json.Unmarshal of the report: the core fields and the inventory have to have
\* their types; ingestWire takes only the sections of protocol 4 as they come.
Parsed(wire) == wire.core # "malformed" /\ \A name \in InventoryNames : wire[name] # Malformed

\* ParseMetricsIngest, Validate (the core fields in their ranges) and Hardware.
Ingest(wire) ==
    IF ~Parsed(wire) \/ wire.core # "in" THEN Rejected
    ELSE [name \in PartNames |-> Decode(wire, name)]

-----------------------------------------------------------------------------
Lists(n) == UNION {[1..m -> Entries] : m \in 0..n}
Broken == {Nil, Malformed}
One(name, f) == <<[name |-> name, fit |-> f, opt |-> "out"]>>
Wires == [core: {"in", "out", "malformed"},
          fields: [a: {"out"}, b: {Nil, "in"}] \cup Broken,
          strict: {[req |-> "in", opt |-> "out"], [req |-> "out", opt |-> Nil], Malformed},
          list: {One("x", f) : f \in BOOLEAN} \cup Broken,
          services: [full: BOOLEAN, items: {<<>>, One("x", TRUE)}] \cup {Malformed},
          dns: {[resolver |-> f, server |-> Nil, iface |-> "in"] : f \in {"in", "out"}} \cup {Malformed},
          time: {[a |-> Nil, items |-> One("x", FALSE)], [a |-> "out", items |-> One("x", TRUE)], Malformed},
          host_info: {[a |-> "out", items |-> One("x", TRUE)]} \cup Broken,
          physical_disks: {<<[name |-> "x", size |-> "out"], [name |-> "x", size |-> "in"]>>} \cup Broken]

IngestTypeOK ==
    /\ given.kind \in {"text", "list", "report"}
    /\ taken = Pending \/ given.kind # "report" \/ taken = Rejected \/ DOMAIN taken = PartNames

IngestInit ==
    /\ given \in [kind: {"text"}, of: Texts] \cup [kind: {"list"}, of: Lists(ListLen)]
                 \cup [kind: {"report"}, of: Wires]
    /\ taken = Pending

IngestText ==
    /\ taken = Pending /\ given.kind = "text"
    /\ taken' = CleanText(given.of, TextMax) /\ UNCHANGED given

IngestList ==
    /\ taken = Pending /\ given.kind = "list"
    /\ taken' = CleanList(given.of) /\ UNCHANGED given

IngestReport ==
    /\ taken = Pending /\ given.kind = "report"
    /\ taken' = Ingest(given.of) /\ UNCHANGED given

IngestNext == IngestText \/ IngestList \/ IngestReport

IngestSpec == IngestInit /\ [][IngestNext]_ivars

-----------------------------------------------------------------------------
Done(kind) == taken # Pending /\ given.kind = kind

\* A stored text is the longest run of whole characters of the cleaned text
\* that fits the limit, without control characters: JSONB would refuse a NUL,
\* and half a rune is not UTF-8 (cleanText, model.go:190-207).
TextFits ==
    Done("text") =>
        LET full == Bytes(Trim(Printable(given.of)))
            whole(n) == n = Len(full) \/ RuneStart(full[n + 1])
        IN  /\ IsPrefix(taken, full)
            /\ whole(Len(taken)) /\ Len(taken) <= TextMax
            /\ \A n \in (Len(taken) + 1)..Len(full) : whole(n) => n > TextMax
            /\ full # <<>> /\ TextMax >= 2 => taken # <<>>
            /\ taken # <<>> => Head(taken) # "sp"

\* A cleaned list holds the first ListMax names that have a valid entry, each
\* with its first valid entry, in the order of the report: an invalid entry
\* neither takes the place nor the name of a valid one (ingest_v4.go:436-476).
ListFirstValid ==
    Done("list") =>
        LET list == given.of
            first(i) == list[i].fit /\ list[i].name # ""
                        /\ \A j \in 1..(i - 1) : ~(list[j].fit /\ list[j].name = list[i].name)
            all == Picked([i \in DOMAIN list |-> i], {i \in DOMAIN list : first(i)})
            want == SubSeq(all, 1, IF Len(all) < ListMax THEN Len(all) ELSE ListMax)
        IN  taken = [i \in DOMAIN want |-> [list[want[i]] EXCEPT !.opt = Ranged(@)]]

\* A broken section of protocol 4 costs itself and nothing else: the report is
\* taken exactly when its core is good and its inventory decodes, and each part
\* comes out as it would alone (ingestWire.request, ingest_v4.go:222-285;
\* Validate, model.go:380-394).
SectionAlone ==
    Done("report") =>
        /\ (taken = Rejected) <=> (given.of.core # "in" \/ \E name \in InventoryNames : given.of[name] = Malformed)
        /\ taken # Rejected =>
            \A name \in PartNames :
                LET alone == [n \in PartNames \cup {"core"} |->
                                 IF n = "core" THEN "in" ELSE IF n = name THEN given.of[n] ELSE Nil]
                IN  taken[name] = Ingest(alone)[name]

\* "A broken inventory must not have the whole intake of metrics refused"
\* (host_info.go:95-98, model.go:210-211).  It does not hold: one of a wrong
\* type fails the decoding of the report.  No run checks it.
InventoryHarmless == Done("report") => ((taken = Rejected) <=> (given.of.core # "in"))

\* No report empties the stored services: a full list that is taken has a
\* service in it (sanitizeServices, ingest_v4.go:592-623).
FullListNotEmpty ==
    Done("report") /\ taken # Rejected /\ taken.services # Nil =>
        (taken.services.full => taken.services.items # <<>>)

\* Whatever a report carries, an invalid section of protocol 4, list entry or
\* field costs itself and nothing else, and what is kept can be stored and
\* deletes nothing (ingest_v4.go, model.go).
SectionsClean == IngestTypeOK /\ TextFits /\ ListFirstValid /\ SectionAlone /\ FullListNotEmpty
=============================================================================
