------------------------------ MODULE Logging ------------------------------
(***************************************************************************)
(* Operational log lines (logging/redact.ts, json-logger.ts,               *)
(* correlation.ts, logging.interceptor.ts, common/bridge-error.filter.ts). *)
(*                                                                         *)
(* A text is the sequence of its runs of digits and of other characters,   *)
(* by length.  A value is a leaf or a reference into a heap of objects,    *)
(* arrays, maps and sets, so that values can share parts and be cyclic.    *)
(* The result of redaction is a value in which "mark" stands for the       *)
(* markers [redacted], [circular], [depth-limit] and their like.           *)
(***************************************************************************)
EXTENDS Naturals, Sequences, FiniteSetsExt, SequencesExt

CONSTANTS NidDigits,        \* 16
          MaxString,        \* MAX_STRING_LENGTH
          TreeDepth,        \* MAX_DEPTH
          MaxItems,         \* MAX_ARRAY_ITEMS
          MaxKeys           \* MAX_OBJECT_KEYS

VARIABLES heap,     \* the objects a log call refers to
          entry,    \* the log call
          line      \* Unwritten, or what became of it

logVars == <<heap, entry, line>>

Unwritten == [is |-> "unwritten"]
Filtered == [is |-> "filtered"]
Thrown == [is |-> "thrown"]
-----------------------------------------------------------------------------
(* Texts.                                                                  *)

\* of: the length of the run in the text the caller gave.
WordRun(n) == [kind |-> "words", len |-> n, of |-> n]
DigitRun(n) == [kind |-> "digits", len |-> n, of |-> n]
Marker(n) == [kind |-> "marker", len |-> n, of |-> n]
REDACTED_NID == Marker(14)
TRUNCATED == Marker(12)

Length(t) == FoldLeft(LAMBDA n, r : n + r.len, 0, t)
Preceding(t, i) == Length(SubSeq(t, 1, i - 1))

\* The first n characters.
slice(t, n) ==
    [i \in 1..Cardinality({j \in DOMAIN t : Preceding(t, j) < n}) |->
        [t[i] EXCEPT !.len = Min({@, n - Preceding(t, i)})]]

Scrubbed(t) ==
    [i \in DOMAIN t |-> IF t[i].kind = "digits" /\ t[i].len >= NidDigits
                          THEN REDACTED_NID ELSE t[i]]

Capped(t) == IF Length(t) > MaxString THEN Append(slice(t, MaxString), TRUNCATED) ELSE t

\* The cap is applied first.
MutantScrubString(t) == Scrubbed(Capped(t))

scrubString(t) == Capped(Scrubbed(t))
-----------------------------------------------------------------------------
(* Values.                                                                 *)

Text(t) == [is |-> "text", text |-> t]
Mark(m) == [is |-> "mark", mark |-> m]
Ref(n) == [is |-> "ref", node |-> n]
Node(is, entries) == [is |-> is, entries |-> entries]
Entry(k, v) == [key |-> k, val |-> v]

\* Lower case, without _ - and blanks.
normalizeKey(k) == IF k = "Push_Token" THEN "pushtoken" ELSE k

DENIED == {"token", "pushtoken"}

isDeniedField(k) == normalizeKey(k) \in DENIED

\* Views of bytes other than Uint8Array have their bytes as enumerable entries.
Enumerable(v) == v.is \in {"ref", "object", "view"}

redactLeaf(v) ==
    CASE v.is = "text" -> Text(scrubString(v.text))
      [] v.is = "number" -> IF v.digits >= NidDigits THEN Text(<<REDACTED_NID>>) ELSE v
      [] v.is = "opaque" -> Mark("redacted")
      [] v.is = "bytes" -> Mark("binary")
      [] v.is = "date" -> IF v.valid THEN v ELSE Thrown
      [] v.is = "error" -> [v EXCEPT !.message = scrubString(@), !.stack = scrubString(@)]
      [] OTHER -> v

\* The parts of a value have been redacted one by one: a part that threw, threw
\* the whole call.
Built(is, entries) ==
    IF \E i \in DOMAIN entries : entries[i].val = Thrown THEN Thrown ELSE Node(is, entries)

\* seen is one WeakSet for the whole call and is never emptied, so that a part
\* met again is "circular" wherever it is.
RECURSIVE redactInner(_, _, _, _)

\* The entries in order, seen handed from one to the next.
RedactAll(h, entries, byName, depth, seen) ==
    FoldLeft(LAMBDA acc, e :
                IF byName /\ isDeniedField(e.key)
                  THEN [acc EXCEPT !.out = Append(@, Entry(e.key, Mark("redacted")))]
                  ELSE LET r == redactInner(h, e.val, depth + 1, acc.seen) IN
                       [out |-> Append(acc.out, Entry(e.key, r.out)), seen |-> r.seen],
             [out |-> <<>>, seen |-> seen], entries)

\* A map is read as an object, a set as an array.
ByName(is) == is \in {"object", "map"}

redactNode(h, n, depth, seen) ==
    LET limit == IF ByName(n.is) THEN MaxKeys ELSE MaxItems
        kept == SubSeq(n.entries, 1, Min({limit, Len(n.entries)}))
        r == RedactAll(h, kept, ByName(n.is), depth, seen)
        more == IF Len(n.entries) > limit THEN <<Entry("more", Mark("limit"))>> ELSE <<>>
    IN  [out |-> Built(IF ByName(n.is) THEN "object" ELSE "array", r.out \o more),
         seen |-> r.seen]

redactInner(h, v, depth, seen) ==
    CASE ~Enumerable(v) -> [out |-> redactLeaf(v), seen |-> seen]
      [] v.is = "ref" /\ v.node \in seen -> [out |-> Mark("circular"), seen |-> seen]
      [] depth >= TreeDepth -> [out |-> Mark("depth-limit"), seen |-> seen]
      [] v.is = "view" -> [out |-> Node("object", <<Entry("0", [is |-> "byte"])>>), seen |-> seen]
      [] v.is = "object" -> redactNode(h, v, depth, seen)
      [] OTHER -> redactNode(h, h[v.node], depth, seen \cup {v.node})

redact(v) == redactInner(heap, v, 0, {}).out
-----------------------------------------------------------------------------
(* The logger.                                                             *)

LEVEL_RANK == [debug |-> 10, info |-> 20, warn |-> 30, error |-> 40, silent |-> 50]

NEST_LEVEL_MAP == [verbose |-> "debug", debug |-> "debug", log |-> "info",
                   warn |-> "warn", error |-> "error", fatal |-> "error"]

\* 8 to 64 characters of the narrow alphabet are taken over; anything else is
\* replaced by a fresh uuid.
sanitizeRequestId(raw) ==
    IF raw.narrow /\ Length(raw.text) \in 8..64 THEN raw.text ELSE <<WordRun(36)>>

Reserved == {"ts", "level", "msg", "requestId"}

\* Caller-supplied fields never overwrite the reserved ones.
Own(fields) == SelectSeq(fields, LAMBDA e : e.key \notin Reserved)

write(level, msg, fields) ==
    LET safe == redact(fields) IN
    CASE LEVEL_RANK[level] < LEVEL_RANK[entry.threshold] -> Filtered
      [] OTHER -> IF safe = Thrown THEN Thrown
                  ELSE [is |-> "line", level |-> level, msg |-> scrubString(msg),
                        requestId |-> sanitizeRequestId(entry.requestId),
                        fields |-> Own(safe.entries)]

\* The text JSON.stringify makes of a redacted object; its names are part of the
\* text and are scrubbed with it.
Rendered == <<WordRun(2)>>

\* The last parameter is the context if it is a text; the others are details.
emitNest(level, message, params) ==
    LET named == params # <<>> /\ Last(params).is = "text"
        rest == IF named THEN Front(params) ELSE params
        context == IF named THEN <<Entry("context", Last(params))>> ELSE <<>>
        detail == IF rest = <<>> THEN <<>> ELSE <<Entry("detail", rest[1])>>
        stack == IF message.is = "error" THEN <<Entry("stack", Text(message.stack))>> ELSE <<>>
        text == CASE message.is = "text" -> message.text
                  [] message.is = "error" -> message.message
                  [] OTHER -> Rendered
    IN  IF message.is \notin {"text", "error"} /\ redact(message) = Thrown
          THEN Thrown
          ELSE write(NEST_LEVEL_MAP[level], text, Node("object", context \o detail \o stack))

\* LoggingInterceptor: the path and no other part of the request.
intercept(req) ==
    write(IF req.ok THEN "info" ELSE "warn", <<WordRun(12)>>,
          Node("object", <<Entry("path", Text(req.path))>>))

\* BridgeErrorFilter: the errors of the broker, of validation and of the
\* framework are answered and not logged; of any other the stack is logged.
catch(e) ==
    IF e.class \in {"BridgeError", "ZodError", "HttpException"}
      THEN Filtered
      ELSE emitNest("error", Text(e.stack), <<Text(<<WordRun(17)>>)>>)

Emit ==
    /\ line = Unwritten
    /\ line' = CASE entry.via = "write" -> write(entry.level, entry.msg, Ref(1))
                 [] entry.via = "message" -> emitNest("warn", Ref(1), <<>>)
                 [] entry.via = "detail" ->
                       emitNest("warn", Text(entry.msg), <<Ref(1), Text(entry.msg)>>)
                 [] entry.via = "error" ->
                       emitNest("error", [is |-> "error", name |-> <<WordRun(5)>>,
                                          message |-> entry.msg, stack |-> entry.msg], <<>>)
                 [] entry.via = "filter" ->
                       catch([class |-> entry.class, stack |-> entry.msg])
                 [] entry.via = "http" ->
                       intercept([ok |-> entry.level = "info", path |-> entry.msg])
    /\ UNCHANGED <<heap, entry>>
-----------------------------------------------------------------------------
(* What may be logged.                                                     *)

Texts == { <<WordRun(3)>>, <<DigitRun(NidDigits - 1), WordRun(1), DigitRun(1)>>, <<DigitRun(NidDigits)>>,
           <<WordRun(1), DigitRun(NidDigits + 4)>>,
           <<WordRun(MaxString - 1), DigitRun(NidDigits)>>, <<WordRun(MaxString), DigitRun(NidDigits)>> }

Nid == Text(<<DigitRun(NidDigits)>>)

Leaves == { Nid, Text(<<WordRun(MaxString - 1), DigitRun(NidDigits)>>),
            [is |-> "number", digits |-> NidDigits - 1], [is |-> "number", digits |-> NidDigits],
            [is |-> "opaque"], [is |-> "bytes"], [is |-> "view"], [is |-> "nothing"],
            [is |-> "date", valid |-> TRUE], [is |-> "date", valid |-> FALSE],
            [is |-> "error", name |-> <<WordRun(5)>>, message |-> Nid.text, stack |-> Nid.text],
            [is |-> "error", name |-> Nid.text, message |-> <<WordRun(3)>>, stack |-> Nid.text] }

\* A national id may be a name, too.
Names == {"note", "token", "Push_Token", "level", "1199880012345678"}

\* The first node is the fields or the message, the third lies at the limits.
Heaps ==
    LET Refs == {Ref(n) : n \in 1..3}
        first == {Entry(k, v) : k \in Names, v \in Leaves \cup Refs}
        second == {Entry("more", v) : v \in {Nid, Ref(1), Ref(2), Ref(3)}}
        inner == {Entry("1199880012345678", v) : v \in Leaves \cup Refs} \cup {Entry("Push_Token", Nid)}
        last == Node("array", [i \in 1..(MaxItems + 1) |-> Entry("item", Nid)])
    IN  {<<Node("object", r), Node(is, i), last>> :
            r \in {<<>>} \cup {<<e>> : e \in first} \cup {<<e, f, Entry("rest", Nid)>> : e \in first, f \in second},
            is \in {"object", "array", "map", "set"}, i \in {<<e>> : e \in inner}}

RequestIds == { [narrow |-> n, text |-> <<t>>] :
                  n \in BOOLEAN, t \in {WordRun(7), WordRun(64), WordRun(65), DigitRun(NidDigits)} }

LogInit ==
    /\ line = Unwritten
    /\ \/ /\ heap \in Heaps
          /\ \E via \in {"write", "message", "detail"} :
                entry = [via |-> via, level |-> "info", threshold |-> "debug",
                         msg |-> <<DigitRun(NidDigits)>>, class |-> "none",
                         requestId |-> [narrow |-> FALSE, text |-> <<WordRun(7)>>]]
       \/ /\ heap = <<Node("object", <<>>)>>
          /\ entry \in [via : {"write", "error", "filter", "http"}, level : {"info", "warn"},
                        threshold : {"debug", "warn", "silent"}, msg : Texts,
                        class : {"BridgeError", "ZodError", "HttpException", "Error"},
                        requestId : RequestIds]
-----------------------------------------------------------------------------
\* A run of digits of a national id, or a part of one.
HasNid(t) == \E i \in DOMAIN t : t[i].kind = "digits" /\ t[i].of >= NidDigits

\* What the values of a line show.
RECURSIVE Shows(_)
Shows(v) ==
    CASE v.is = "text" -> IF HasNid(v.text) THEN {"nid"} ELSE {}
      [] v.is = "number" -> IF v.digits >= NidDigits THEN {"nid"} ELSE {}
      [] v.is = "bytes" -> {"bytes"}
      [] v.is = "error" -> IF HasNid(v.message) \/ HasNid(v.stack) THEN {"nid"} ELSE {}
      [] v.is \in {"object", "array"} ->
            UNION {Shows(v.entries[i].val) \cup
                   (IF v.is = "object" /\ isDeniedField(v.entries[i].key)
                          /\ v.entries[i].val # Mark("redacted") THEN {"denied"} ELSE {}) :
                       i \in DOMAIN v.entries}
      [] OTHER -> {}

\* The two passes of logging/redact.ts:14-20 over values: "kills a whole subtree
\* by the name it is filed under" and "kills a 16-digit run wherever it appears,
\* including inside a free-text message, a stack trace, an error from a library".
\* No message, stack, text or number of a line shows a national id nor a part
\* of one that the cap left over, none shows a Uint8Array, and nothing filed
\* under a denied name is shown, at any depth and through shared and cyclic
\* parts.  A caller's fields never stand for the reserved ones, and a call at or
\* above the threshold is not lost (redactInner, write, emitNest).  Names, and a
\* request id, are not values and are passed on as they are.
LogsDiscloseNothing ==
    /\ line.is = "line" =>
         /\ ~HasNid(line.msg)
         /\ Shows(Node("object", line.fields)) = {}
         /\ \A i \in DOMAIN line.fields : line.fields[i].key \notin Reserved
         /\ LEVEL_RANK[line.level] >= LEVEL_RANK[entry.threshold]
    /\ line = Filtered =>
         \/ entry.threshold # "debug"
         \/ entry.via = "filter" /\ entry.class # "Error"
=============================================================================
