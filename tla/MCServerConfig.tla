--------------------------- MODULE MCServerConfig ---------------------------
(* ServerConfig for TLC: three of the eight settings, one of each kind and *)
(* one in the second section, an unsigned int of 16 values, and files with *)
(* every choice of what each setting says, a comment and a foreign key.    *)
EXTENDS ServerConfig

MCSections == {"server", "serverdb"}
MCKeys == {"name", "port", "file", "foreign"}
MCTexts == {"", "text", "White Elephant 2024", "ServerDB.db"}
MCNumbers == {"8", "7", "0", "-1", "16"}
MCValues == MCTexts \cup MCNumbers
MCTrim == [v \in MCValues |-> v]

(* All of these texts are plain (INIText): what is written is read.        *)
MCHeaderAs == [s \in MCSections |-> ParsedSection(s)]
MCKeyAs == [k \in MCKeys |-> [v \in MCValues |-> ParsedKey(k, v)]]
MCReplacedAs == [k \in MCKeys |-> [u \in MCValues |-> MCKeyAs[k]]]

MCNumber == [v \in MCValues |-> CASE v = "8" -> 8 [] v = "7" -> 7 [] v = "-1" -> -1
                                  [] v = "16" -> 16 [] OTHER -> 0]
MCCut == [v \in MCValues |-> IF v \in {"", "7", "8", "0"} THEN {""}
                             ELSE IF v = "16" THEN {"", "7"} ELSE {"", "text"}]
MCSettings == <<[section |-> "server", key |-> "name", kind |-> "text", default |-> "White Elephant 2024"],
                [section |-> "server", key |-> "port", kind |-> "number", default |-> "8"],
                [section |-> "serverdb", key |-> "file", kind |-> "text", default |-> "ServerDB.db"]>>

ByHandLine(type, name, value) == [type |-> type, name |-> name, value |-> value, byHand |-> TRUE]
KeyByHand(k, v) == ByHandLine("keyvalue", k, v)

MCFiles ==
    {<<ByHandLine("section", "server", "none")>> \o name \o port \o db :
        name \in {<<>>, <<KeyByHand("name", "")>>, <<KeyByHand("name", "text")>>},
        port \in {<<>>} \cup {<<KeyByHand("port", v)>> : v \in MCNumbers \cup {"text"}},
        db \in {<<>>,
                <<ByHandLine("comment", "none", "none"), ByHandLine("section", "serverdb", "none"),
                  KeyByHand("foreign", "7"), KeyByHand("file", "text")>>}}
=============================================================================
