------------------------ MODULE ContainerResources -------------------------
(* The limits of a container, from the request to the OCI spec.  The API     *)
(* server passes the memory of a request on as it was written; the worker    *)
(* reads it (schemas.py) while it builds the spec.  Three more readings are  *)
(* in the code: those of api_models.py, adapters.py and models.py, and the   *)
(* one of containerd_interface.py.  A quantity is digits, perhaps with a     *)
(* decimal, and a unit; signs and inner blanks are left out.                 *)
EXTENDS Integers

CONSTANTS Kilo, Kibi   \* 1000 and 1024

ASSUME UnitAssumption == Kilo \in Nat /\ Kibi \in Nat

Units == {"", "k", "kb", "ki", "kib", "m", "mb", "mi", "mib", "g", "gb", "gi",
          "gib", "other"}

\* tenths = 0 also for a quantity that is written without a decimal point.
Quantity == {q \in [whole : Nat, tenths : 0..9, point : BOOLEAN, unit : Units] :
                q.point \/ q.tenths = 0}

\* int(float(number) * multiplier)
Scaled(q, multiplier) == q.whole * multiplier + (q.tenths * multiplier) \div 10

\* What a unit means, in the table of api_models.py; what is not in the table
\* counts as bytes.
units == [u \in Units |->
            CASE u \in {"k", "kb"}   -> Kilo
              [] u \in {"m", "mb"}   -> Kilo * Kilo
              [] u \in {"g", "gb"}   -> Kilo * Kilo * Kilo
              [] u \in {"ki", "kib"} -> Kibi
              [] u \in {"mi", "mib"} -> Kibi * Kibi
              [] u \in {"gi", "gib"} -> Kibi * Kibi * Kibi
              [] OTHER -> 1]

\* The reading that the API documents for its clients.
_parse_mem_bytes(q) == Scaled(q, units[q.unit])

-----------------------------------------------------------------------------
(* The worker: int() of the digits raises ValueError when they have a point  *)
(* or when a part of the unit is left in front of the suffix.                *)

WorkerReads(q) == ~q.point /\ q.unit \in {"", "m", "g", "mi", "gi"}

mem_to_bytes_binary(q) ==   \* Bug: "512m" is taken for mebibytes.
    CASE q.unit \in {"m", "mi"} -> q.whole * Kibi * Kibi
      [] q.unit \in {"g", "gi"} -> q.whole * Kibi * Kibi * Kibi
      [] OTHER -> q.whole

_mem_to_bytes(q) ==
    CASE q.unit = "mi" -> q.whole * Kibi * Kibi
      [] q.unit = "gi" -> q.whole * Kibi * Kibi * Kibi
      [] q.unit = "m"  -> q.whole * Kilo * Kilo
      [] q.unit = "g"  -> q.whole * Kilo * Kilo * Kilo
      [] OTHER -> q.whole

\* ResourceSpec: the limits are wrapped in a "resources" of their own.  quota
\* is the time per period of 100 ms, in microseconds.
to_linux_resources_dict(r) ==
    [resources |-> [cpu    |-> [quota |-> r.cpu_millicores * 100],
                    memory |-> [limit |-> _mem_to_bytes(r.memory)]]]

\* OciSpecBuilder.build: linux.resources of the spec is {} and is updated with
\* the dict.
build(r) == to_linux_resources_dict(r)

-----------------------------------------------------------------------------
(* The other readings.                                                       *)

\* adapters.py: the regular expression admits digits only.
AdapterReads(q) == ~q.point /\ q.unit \notin {"kib", "mib", "gib", "other"}

parse_mem_bytes(q) ==
    q.whole * (CASE q.unit \in {"k", "kb"} -> Kilo
                 [] q.unit = "ki"          -> Kibi
                 [] q.unit \in {"m", "mb"} -> Kilo * Kilo
                 [] q.unit = "mi"          -> Kibi * Kibi
                 [] q.unit \in {"g", "gb"} -> Kilo * Kilo * Kilo
                 [] q.unit = "gi"          -> Kibi * Kibi * Kibi
                 [] OTHER -> 1)

\* models.py: float() raises when a letter is left.
ModelReads(q) == q.unit \in {"", "ki", "mi", "gi"}

parse_bytes(q) ==
    Scaled(q, CASE q.unit = "ki" -> Kibi
                [] q.unit = "mi" -> Kibi * Kibi
                [] q.unit = "gi" -> Kibi * Kibi * Kibi
                [] OTHER -> 1)

\* containerd_interface.py: a letter alone is a binary unit, and of a suffix
\* that is not in the table the last letter counts.
_parse_bytes(q) ==
    Scaled(q, CASE q.unit \in {"k", "ki"} -> Kibi
                [] q.unit \in {"m", "mi"} -> Kibi * Kibi
                [] q.unit \in {"g", "gi"} -> Kibi * Kibi * Kibi
                [] q.unit = "kb" -> Kilo
                [] q.unit = "mb" -> Kilo * Kilo
                [] q.unit = "gb" -> Kilo * Kilo * Kilo
                [] OTHER -> 1)

\* What the worker reads at all it reads as the API documents it, and so do
\* adapters.py and, where they read it, models.py; containerd_interface.py
\* differs for the single letters and nowhere else.
AgreesOn(q) ==
    WorkerReads(q) =>
        /\ _mem_to_bytes(q) = _parse_mem_bytes(q)
        /\ AdapterReads(q) /\ parse_mem_bytes(q) = _mem_to_bytes(q)
        /\ ModelReads(q) => parse_bytes(q) = _mem_to_bytes(q)
        /\ q.unit \in {"", "mi", "gi"} => _parse_bytes(q) = _mem_to_bytes(q)
=============================================================================
