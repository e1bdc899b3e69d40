--------------------------- MODULE MCPodLifecycle ---------------------------
(* Pods with up to two containers, whose names may collide and whose memory  *)
(* the worker may not be able to read; hosts with cnitool, with a plugin of  *)
(* their own, and with a list of the right name that is of no use.           *)
EXTENDS PodLifecycle

CONSTANTS web, log

Memory(n, u) == [whole |-> n, tenths |-> 0, point |-> FALSE, unit |-> u]
Item(n, m) == [name |-> n, resources |-> [cpu_millicores |-> 500, memory |-> m]]

OneApp == {<<Item(web, Memory(256, "mi"))>>}

SomeRequests ==
    OneApp \cup
    { <<>>,
      <<Item(web, Memory(256, "mi")), Item(log, Memory(512, "m"))>>,
      <<Item(web, Memory(1, "gi")), Item(web, Memory(1, "g"))>>,
      <<Item(web, Memory(4096, "")), Item(log, Memory(64, "ki"))>> }

WithTool == [cnitool |-> TRUE, files |-> <<"no plugin">>]
WithPlugin == [cnitool |-> FALSE, files |-> <<"unreadable", "good", "no binary">>]
Unusable == [cnitool |-> FALSE, files |-> <<"other", "no plugin", "good">>]

SomeNetworks == {WithPlugin, Unusable}
OneNetwork == {WithTool}
=============================================================================
