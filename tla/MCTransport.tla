---------------------------- MODULE MCTransport -----------------------------
EXTENDS Transport

CONSTANTS h1, h2, CHAT_PORT

\* Sizes as a 64-bit Unix, a 64-bit Windows and a 32-bit system have them.
Sizes(long) ==
    [t \in Fundamental |->
        CASE t \in {"bool", "char", "unsigned char"} -> 1
          [] t \in {"short", "unsigned short"}       -> 2
          [] t \in {"int", "unsigned int", "float"}  -> 4
          [] t \in {"long", "unsigned long"}         -> long
          [] OTHER                                   -> 8]
MCLayout ==
    [Unix64    |-> [sizeof |-> Sizes(8), size_t |-> "unsigned long"],
     Windows64 |-> [sizeof |-> Sizes(4), size_t |-> "unsigned long long"],
     Unix32    |-> [sizeof |-> Sizes(4), size_t |-> "unsigned int"]]

MCHosts     == {h1, h2}
MCDeployments ==
    {d \in [Nodes -> [host : MCHosts, platform : Platforms]] :
         d["server"].host = h1 /\ d["server"].platform # "Windows64"}
MCNames     == {"127.0.0.1", "one", "two"}
MCLookup    == [name \in MCNames |->
    CASE name = "127.0.0.1" -> LOOPBACK [] name = "one" -> h1 [] name = "two" -> h2]

\* Message 1 is a name and a number, 2 a name, a list and a flag, 3 a number and a name.
MCSchema  == << <<String, Plain("long")>>, <<String, Vector("short"), Plain("bool")>>,
                <<Plain("long"), String>> >>
MCMaxLength == [string |-> 14, vector |-> 100]
MCWindows == {[seq |-> 1, lack |-> 2, acks |-> 3]}

(***************************************************************************)
(* With a buffer of 35 bytes the first of these arrives whole, the second is *)
(* refused or cut, the third is whole or cut in its elements, the fourth cut *)
(* in its length or its elements, depending on the platform of the sender,   *)
(* the fifth is whole with a list of its own, and the length of the string   *)
(* in the sixth is read from its characters where a long is longer.         *)
(***************************************************************************)
Sends == {[op |-> "send", peer |-> 0, msg |-> s[1], values |-> s[2]] :
    s \in {<<1, << <<1, 0>>, 5>> >>,
           <<1, << [i \in 1 .. 12 |-> 1], 5>> >>,
           <<2, << <<1, 0>>, <<1, 1>>, 1>> >>,
           <<2, << <<1, 0, 1, 1>>, <<1, 2>>, 1>> >>,
           <<2, << <<1>>, << >>, 1>> >>,
           <<3, <<5, <<1, 1, 1, 1>> >> >>}}

ListenOn      == [op |-> "listen", port |-> CHAT_PORT]
ConnectTo(name) == [op |-> "connect", name |-> name, port |-> CHAT_PORT]

MCCalls == [n \in Nodes |->
    IF n = "server" THEN {ListenOn, ConnectTo("two")}
    ELSE {ConnectTo(name) : name \in {"", "127.0.0.1", "one"}} \cup Sends]
MCMaxAsked == [n \in Nodes |-> 2]
MCMaxPeers == [n \in Nodes |-> IF n = "server" THEN 1 ELSE 2]
=============================================================================
