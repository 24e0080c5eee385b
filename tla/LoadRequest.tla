----------------------------- MODULE LoadRequest -----------------------------
(***************************************************************************)
(* What a StreamLoadManager sends: the builders of config.rs collect the   *)
(* settings call by call, build_headers turns the table properties and the *)
(* custom headers into a header map, and each operation of manager.rs adds *)
(* its own headers.  The custom headers come out of a HashMap, in an order *)
(* that differs from one map to the next.                                  *)
(*                                                                         *)
(* A text is one of a few kinds: "newline" is a line break and nothing     *)
(* else, "inner" holds one among other characters, "escaped" is a newline  *)
(* spelt out; any other text is good for a header as it is.                *)
(***************************************************************************)
EXTENDS Naturals, Sequences, FiniteSets

CONSTANTS
    Settings,         \* calls <<field, value>> of the property builder on offer
    CustomKeys,       \* names given to header()
    NameOf,           \* the HeaderName each stands for, in lower case, or "invalid"
    PublishTimeouts,  \* on offer, in milliseconds
    DelimiterTexts,   \* arguments of convert_delimiter
    MaxBuilderCalls   \* bounds a run

ASSUME RequestAssumption ==
    /\ PublishTimeouts \subseteq Nat
    /\ DelimiterTexts \subseteq Seq(Nat)
    /\ MaxBuilderCalls \in Nat

None == "None"
Refused == "Refused"

\* The fields of StreamLoadTableProperties that become a header, with its name.
HeaderOf ==
    LET Same == {"format", "column_separator", "row_delimiter", "columns", "jsonpaths",
                 "strip_outer_array", "ignore_json_size", "max_filter_ratio",
                 "strict_mode", "timeout", "compression", "skip_header",
                 "partitions", "negative", "timezone"}
    IN  [f \in Same \cup {"where_clause"} |-> IF f = "where_clause" THEN "where" ELSE f]

TableFields == DOMAIN HeaderOf \cup {"database", "table"}

TransactionOps == {"begin", "prepare", "commit", "rollback"}
Ops == {"v1", "load"} \cup TransactionOps

VARIABLES
    config,       \* StreamLoadConfig, durations in milliseconds
    properties,   \* StreamLoadTableProperties but for custom_headers
    custom,       \* custom_headers
    builder_calls, \* calls of the builders (bounds a run)
    manager,      \* whether StreamLoadManager::new was called
    sent,         \* the headers each operation sent last, {} before and after an error
    delimiter     \* the last call of convert_delimiter

settings == <<config, properties, custom, builder_calls>>
requestVars == <<settings, manager, sent, delimiter>>

RequestInit ==
    /\ config = [password |-> None, connect_timeout |-> 10000, request_timeout |-> 600000,
                 max_retries |-> 3, retry_interval |-> 1000, publish_timeout |-> {},
                 enable_transaction |-> FALSE, enable_multi_table_transaction |-> FALSE,
                 label_prefix |-> "rust-", sanitize_error_log |-> TRUE,
                 chunk_limit |-> 10 * 1024 * 1024, max_buffer_rows |-> 10000,
                 scanning_frequency_ms |-> 50, io_thread_count |-> 1,
                 database |-> "config_database"]
    /\ properties = [f \in TableFields |-> None]
    /\ custom = [k \in {} |-> None]
    /\ builder_calls = 0
    /\ manager = FALSE
    /\ sent = [o \in Ops |-> {}]
    /\ delimiter = {}

-----------------------------------------------------------------------------
(* The builders. *)

BuilderCall ==
    /\ ~manager
    /\ builder_calls < MaxBuilderCalls
    /\ builder_calls' = builder_calls + 1
    /\ delimiter' = {}
    /\ UNCHANGED <<manager, sent>>

\* The setters that store their argument.
SetOption(f, v) ==
    /\ BuilderCall
    /\ config' = [config EXCEPT ![f] = v]
    /\ UNCHANGED <<properties, custom>>

\* Turning it on turns transactions on, whatever was said of them before, and
\* a later enable_transaction(false) turns those off again.
enable_multi_table_transaction(enable) ==
    /\ BuilderCall
    /\ config' = [config EXCEPT !.enable_multi_table_transaction = enable,
                                !.enable_transaction = @ \/ enable]
    /\ UNCHANGED <<properties, custom>>

SetProperty(f, v) ==
    /\ BuilderCall
    /\ properties' = [properties EXCEPT ![f] = v]
    /\ UNCHANGED <<config, custom>>

Insert(map, key, value) ==
    [k \in DOMAIN map \cup {key} |-> IF k = key THEN value ELSE map[k]]

header(key, value) ==
    /\ BuilderCall
    /\ custom' = Insert(custom, key, value)
    /\ UNCHANGED <<config, properties>>

\* The manager owns both: they do not change any more.
NewManager ==
    /\ ~manager
    /\ manager' = TRUE
    /\ delimiter' = {}
    /\ UNCHANGED <<settings, sent>>

-----------------------------------------------------------------------------
(* Headers. *)

HeaderText(val) == IF val \in {"newline", "inner"} THEN Refused ELSE val

\* The name is compared as it was given.
to_header_val(name, val) ==
    IF name \in {"row_delimiter", "column_separator"} /\ val = "newline"
    THEN "escaped"
    ELSE HeaderText(val)

FromProperties ==
    LET Given == {f \in DOMAIN HeaderOf : properties[f] # None}
        FieldOf(h) == CHOOSE f \in Given : HeaderOf[f] = h
    IN  [h \in {HeaderOf[f] : f \in Given} |-> to_header_val(h, properties[FieldOf(h)])]

\* The first value or name that is refused ends it with an error.
PropertiesRefused ==
    \/ \E h \in DOMAIN FromProperties : FromProperties[h] = Refused
    \/ \E k \in DOMAIN custom : NameOf[k] = "invalid" \/ to_header_val(k, custom[k]) = Refused

CustomNames == {NameOf[k] : k \in DOMAIN custom}

\* Which key comes last among those of one name, in any order of the map.
LastKeys == {last \in [CustomNames -> DOMAIN custom] :
                \A n \in CustomNames : NameOf[last[n]] = n}

\* A custom header replaces what has its name by then.
build_headers(last) ==
    [n \in DOMAIN FromProperties \cup CustomNames |->
        IF n \in CustomNames THEN to_header_val(last[n], custom[last[n]]) ELSE FromProperties[n]]

default_db ==
    IF properties["database"] # None THEN properties["database"] ELSE config.database

default_table == IF properties["table"] # None THEN properties["table"] ELSE ""

\* The transaction a request belongs to.
Addressed ==
    IF config.enable_multi_table_transaction
    THEN [label |-> "label", db |-> HeaderText(default_db), transaction_type |-> "multi"]
    ELSE [label |-> "label", db |-> HeaderText(default_db), table |-> HeaderText(default_table)]

RoundedDown(ms) == ms \div 1000  \* (bug)

\* A publish_timeout below one second is sent as one second.
DeadlineSecs(ms) == IF ms < 1000 THEN 1 ELSE ms \div 1000

\* The headers an operation adds itself.  The caller of a load names the
\* database and the table; here it names the ones the transaction was begun on.
OwnHeaders(o) ==
    CASE o = "v1" -> [expect |-> "100-continue", label |-> "label"]
      [] o = "load" -> [expect |-> "100-continue", label |-> "label",
                        db |-> HeaderText(default_db), table |-> HeaderText(default_table),
                        channel_num |-> "0"]
      [] o = "begin" -> Insert(Addressed, "timeout",
             IF properties["timeout"] # None THEN properties["timeout"] ELSE "600")
      [] o = "commit" /\ config.publish_timeout # {} -> Insert(Addressed, "timeout",
             DeadlineSecs(CHOOSE ms \in config.publish_timeout : TRUE))
      [] OTHER -> Addressed

Over(map, under) ==
    [n \in DOMAIN map \cup DOMAIN under |-> IF n \in DOMAIN map THEN map[n] ELSE under[n]]

CustomOverOwn(o, last) ==  \* (bug)
    IF o \in TransactionOps THEN OwnHeaders(o) ELSE Over(build_headers(last), OwnHeaders(o))

\* The own headers are inserted last.
HeadersOf(o, last) ==
    IF o \in TransactionOps THEN OwnHeaders(o) ELSE Over(OwnHeaders(o), build_headers(last))

RequestRefused(o) ==
    \/ o \notin TransactionOps /\ PropertiesRefused
    \/ \E n \in DOMAIN OwnHeaders(o) \ {"timeout"} : OwnHeaders(o)[n] = Refused

\* execute_request adds its credentials to headers that have none.
Authorized(map) == Over(map, [authorization |-> "config_credentials"])

SendRequest(o) ==
    /\ manager
    /\ \E last \in LastKeys :
          sent' = [sent EXCEPT ![o] =
              IF RequestRefused(o) THEN {} ELSE {Authorized(HeadersOf(o, last))}]
    /\ UNCHANGED <<settings, manager, delimiter>>

-----------------------------------------------------------------------------
(* convert_delimiter, which build_headers does not call: whoever configures  *)
(* a delimiter in hexadecimal calls it first.  Its argument is whether it    *)
(* starts with \x or 0x, and the rest: hexadecimal digits by their value,    *)
(* other characters as 16 + their number of bytes.                           *)

IsHex(c) == c < 16
Bytes(c) == IF IsHex(c) THEN 1 ELSE c - 16

\* Whether the characters have an even number of bytes in all.
EvenBytes(text) == Cardinality({i \in DOMAIN text : Bytes(text[i]) % 2 = 1}) % 2 = 0

\* The characters are taken by pairs, and what is left of the last pair is
\* not looked at.
HexPairs(text) ==
    [i \in 1..(Len(text) \div 2) |-> <<text[2 * i - 1], text[2 * i]>>]

PairsOnly(hex, text) ==  \* (bug)
    LET pairs == HexPairs(text) IN
    IF hex /\ (\A i \in DOMAIN pairs : IsHex(pairs[i][1]) /\ IsHex(pairs[i][2]))
    THEN {[i \in DOMAIN pairs |-> 16 * pairs[i][1] + pairs[i][2]]} ELSE {}

\* The characters of the delimiter, or {} for an error.
Converted(hex, text) ==
    LET pairs == HexPairs(text)
        good == /\ EvenBytes(text)
                /\ \A i \in DOMAIN pairs : IsHex(pairs[i][1]) /\ IsHex(pairs[i][2])
    IN  CASE text = <<>> \/ (hex /\ ~good) -> {}
          [] text # <<>> /\ ~hex -> {text}
          [] OTHER -> {[i \in DOMAIN pairs |-> 16 * pairs[i][1] + pairs[i][2]]}

\* It reads nothing of the rest: here it is called before the builders are.
convert_delimiter(hex, text) ==
    /\ builder_calls = 0 /\ ~manager
    /\ delimiter' = {[hex |-> hex, text |-> text, result |-> Converted(hex, text)]}
    /\ UNCHANGED <<settings, manager, sent>>

RequestNext ==
    \/ \E ms \in PublishTimeouts : SetOption("publish_timeout", {ms})
    \/ \E b \in BOOLEAN : SetOption("enable_transaction", b) \/ enable_multi_table_transaction(b)
    \/ \E s \in Settings : SetProperty(s[1], s[2])
    \/ \E k \in CustomKeys, v \in {"text", "newline"} : header(k, v)
    \/ NewManager
    \/ \E o \in Ops : SendRequest(o)
    \/ \E hex \in BOOLEAN, text \in DelimiterTexts : convert_delimiter(hex, text)

RequestSpec == RequestInit /\ [][RequestNext]_requestVars

-----------------------------------------------------------------------------
\* Whatever the custom headers are called and in whichever order they come,
\* the requests of a manager address one transaction: the same label, the same
\* database, and the same table where they name one.
RequestsAgree ==
    \A a, b \in Ops : \A x \in sent[a], y \in sent[b] :
        \A n \in {"label", "db", "table", "transaction_type"}
                 \cap DOMAIN OwnHeaders(a) \cap DOMAIN OwnHeaders(b) :
            x[n] = y[n]

\* A load is sent with every setting that no custom header replaces, delimiters
\* in a form a header can carry, and with the custom headers it does not set
\* itself.  A commit has a deadline of at least a second if a publish_timeout
\* is configured, however short.
SettingsReachServer ==
    /\ \A o \in {"v1", "load"} : \A x \in sent[o] :
          /\ \A f \in DOMAIN HeaderOf :
                properties[f] # None /\ HeaderOf[f] \notin CustomNames =>
                    /\ HeaderOf[f] \in DOMAIN x
                    /\ x[HeaderOf[f]] \in {properties[f], "escaped"} \ {"newline"}
          /\ \A n \in CustomNames \ DOMAIN OwnHeaders(o) :
                \E k \in DOMAIN custom : NameOf[k] = n /\ x[n] \in {custom[k], "escaped"}
    /\ \A x \in sent["commit"] : config.publish_timeout # {} => x["timeout"] >= 1

\* What is returned for a text in hexadecimal spells it, digit by digit, and
\* all of it if every character is a single byte.  Of a text with a longer one
\* the end may be missing: see InvalidDelimiterRefused.
DelimiterSpelt ==
    \A d \in delimiter : d.hex => \A out \in d.result :
        /\ \A i \in DOMAIN out :
              <<out[i] \div 16, out[i] % 16>> = <<d.text[2 * i - 1], d.text[2 * i]>>
        /\ (\A i \in DOMAIN d.text : Bytes(d.text[i]) = 1) => 2 * Len(out) = Len(d.text)

\* "Returns an error if the delimiter format is invalid": Ok is returned only
\* for a text in hexadecimal that consists of pairs of digits.
InvalidDelimiterRefused ==
    \A d \in delimiter :
        d.hex /\ d.result # {} =>
            Len(d.text) % 2 = 0 /\ \A i \in DOMAIN d.text : IsHex(d.text[i])
=============================================================================
