------------------------------- MODULE Config -------------------------------
(***************************************************************************)
(* config/config.cpp: what parse_config() makes of a config.json, and      *)
(* load_config() of a missing one.                                         *)
(*                                                                         *)
(* A document is known by the kind of each part and the value of each      *)
(* integer.  JSON integers are wider than the fields they end up in.       *)
(***************************************************************************)
EXTENDS Integers

CONSTANTS
  INT_MAX,     \* largest int
  UINT32_MAX,  \* largest uint32_t
  Documents    \* the documents looked at

VARIABLE document  \* the config.json read last

UINT16_MAX == 65535

Sections == {"rules", "port_scan", "syn_flood", "ai"}

\* The integers of a document, each with the section it is in.
SectionOf ==
  [queue_num |-> "root", block_ttl_seconds |-> "root", window_seconds |-> "rules",
   distinct_port_threshold |-> "port_scan", syn_threshold |-> "syn_flood",
   queue_capacity |-> "ai", startup_timeout_ms |-> "ai", response_timeout_ms |-> "ai",
   max_restarts |-> "ai", restart_reset_seconds |-> "ai"]

Fields == DOMAIN SectionOf

\* Config{} and AiConfig{}: the values of keys that are not there.
Default ==
  [queue_num |-> 0, block_ttl_seconds |-> 600, window_seconds |-> 10,
   distinct_port_threshold |-> 20, syn_threshold |-> 100, queue_capacity |-> 1024,
   startup_timeout_ms |-> 10000, response_timeout_ms |-> 2000, max_restarts |-> 3,
   restart_reset_seconds |-> 60]

\* A JSON value where an integer is looked for; only the first two kinds have an n.
JsonValue == [kind: {"unsigned", "integer", "other", "absent"}, n: Int]

Document ==
  [root: {"no_json", "object", "other"}, section: [Sections -> {"object", "other", "absent"}],
   value: [Fields -> JsonValue], enabled: {"boolean", "other", "absent"},
   artifact_dir: {"string", "empty", "other", "absent"}, whitelist: {"strings", "other", "absent"}]

ASSUME ConfigAssumption ==
  /\ INT_MAX \in Nat /\ INT_MAX >= 3600000
  /\ UINT32_MAX = 2 * INT_MAX + 1
  /\ Documents \subseteq Document
  /\ \A d \in Documents, f \in Fields : d.value[f].kind = "unsigned" => d.value[f].n \in Nat

-----------------------------------------------------------------------------
\* The section as the parser sees it: an empty one stands in for one that is missing,
\* and in it everything else is.
SectionKind(d, s) ==
  IF s = "root" THEN d.root
  ELSE IF s \in {"port_scan", "syn_flood"} /\ d.section["rules"] = "absent" THEN "absent"
  ELSE d.section[s]

ValueAt(d, f) ==
  IF SectionKind(d, SectionOf[f]) = "object" THEN d.value[f] ELSE [kind |-> "absent", n |-> 0]

\* read_nonnegative_integer(): no value for a section that is no object, a value that is no
\* integer, and a negative one.
HasValue(d, f) ==
  /\ SectionKind(d, SectionOf[f]) # "other"
  /\ \/ ValueAt(d, f).kind \in {"absent", "unsigned"}
     \/ ValueAt(d, f).kind = "integer" /\ ValueAt(d, f).n >= 0

read_nonnegative_integer(d, f) ==
  IF ValueAt(d, f).kind = "absent" THEN Default[f] ELSE ValueAt(d, f).n

\* The values parse_config() lets through.
Least ==
  [queue_num |-> 0, block_ttl_seconds |-> 1, window_seconds |-> 1,
   distinct_port_threshold |-> 1, syn_threshold |-> 1, queue_capacity |-> 1,
   startup_timeout_ms |-> 1000, response_timeout_ms |-> 100, max_restarts |-> 0,
   restart_reset_seconds |-> 1]

Most ==
  [queue_num |-> UINT16_MAX, block_ttl_seconds |-> INT_MAX, window_seconds |-> INT_MAX,
   distinct_port_threshold |-> UINT16_MAX + 1, syn_threshold |-> UINT32_MAX,
   queue_capacity |-> 65536, startup_timeout_ms |-> 60000, response_timeout_ms |-> 60000,
   max_restarts |-> 10, restart_reset_seconds |-> 3600]

\* Bug: only zero is looked for.
InRangeNotZero(d) ==
  \A f \in Fields \ {"queue_num", "max_restarts"} : read_nonnegative_integer(d, f) # 0

InRange(d) ==
  \A f \in Fields :
    read_nonnegative_integer(d, f) >= Least[f] /\ read_nonnegative_integer(d, f) <= Most[f]

\* static_cast<> to the type of the field; a size_t holds every value.
to_int(n) ==
  LET m == n % (UINT32_MAX + 1) IN IF m <= INT_MAX THEN m ELSE m - (UINT32_MAX + 1)

Cast(f, n) ==
  CASE f = "queue_num"     -> n % (UINT16_MAX + 1)
    [] f = "syn_threshold" -> n % (UINT32_MAX + 1)
    [] f \in {"distinct_port_threshold", "queue_capacity"} -> n
    [] OTHER               -> to_int(n)

\* parse_config() returns a configuration: no exception of the JSON library, the kinds
\* are right, and so are the values.
Accepted(d) ==
  /\ d.root = "object"
  /\ d.section["rules"] # "other" /\ d.section["ai"] # "other"
  /\ d.section["ai"] = "object" => d.enabled # "other" /\ d.artifact_dir # "other"
  /\ \A f \in Fields : HasValue(d, f)
  /\ d.whitelist # "other"
  /\ InRange(d)
  /\ d.section["ai"] = "object" => d.artifact_dir # "empty"

parse_config(d) == [f \in Fields |-> Cast(f, read_nonnegative_integer(d, f))]

\* load_config() without a file, or with the document {}.
NoDocument ==
  [root |-> "object", section |-> [s \in Sections |-> "absent"],
   value |-> [f \in Fields |-> [kind |-> "absent", n |-> 0]], enabled |-> "absent",
   artifact_dir |-> "absent", whitelist |-> "absent"]

ConfigInit == document = NoDocument
ConfigNext == document = NoDocument /\ document' \in Documents
ConfigSpec == ConfigInit /\ [][ConfigNext]_document

-----------------------------------------------------------------------------
(***************************************************************************)
(* Properties.                                                             *)
(***************************************************************************)
\* What the other components need of a configuration: block times and windows that end,
\* thresholds that a counter of their type can reach, a queue with room, timers that
\* run, and a stable time that is an int in milliseconds as well.
Usable(cfg) ==
  /\ 0 <= cfg.queue_num /\ cfg.queue_num <= UINT16_MAX
  /\ cfg.block_ttl_seconds > 0 /\ cfg.window_seconds > 0
  /\ 0 < cfg.distinct_port_threshold /\ cfg.distinct_port_threshold <= UINT16_MAX + 1
  /\ 0 < cfg.syn_threshold /\ cfg.syn_threshold <= UINT32_MAX
  /\ cfg.queue_capacity > 0
  /\ cfg.startup_timeout_ms > 0 /\ cfg.response_timeout_ms > 0
  /\ cfg.max_restarts >= 0
  /\ cfg.restart_reset_seconds > 0 /\ cfg.restart_reset_seconds * 1000 <= INT_MAX

\* A configuration that is accepted is what the document says, number for number, and the
\* rest are the defaults; nothing is cut off on the way into a narrower field, no section
\* is passed over, and the other components can work with it.  The defaults are accepted.
ConfigSound ==
  /\ document = NoDocument => Accepted(document)
  /\ Accepted(document) =>
       /\ \A f \in Fields :
            parse_config(document)[f] =
              IF ValueAt(document, f).kind = "absent" THEN Default[f] ELSE document.value[f].n
       /\ \A s \in Sections : SectionKind(document, s) # "other"
       /\ Usable(parse_config(document))
=============================================================================
