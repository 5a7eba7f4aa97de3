--------------------------- MODULE MCSerialization ---------------------------
(* Values for the constants of Serialization: bytes of four values and     *)
(* lengths of two bytes, so that a uint32_t wraps at 16.                   *)
EXTENDS Serialization

MCMessage(type, values) == {[type |-> type, value |-> v] : v \in values}

(* One message type for each specialisation, with values at the edges:     *)
(* empty, full, and too long for the format.                               *)
MCMessages ==
    MCMessage(<<Simple(1), Simple(2)>>, {<<0, 0>>, <<3, 14>>})
    \cup MCMessage(<<Bool, String>>, {<<TRUE, <<>>>>, <<FALSE, <<2, 1>>>>,
                                    <<TRUE, <<1, 1, 1, 1, 1, 1, 1, 1, 1, 1, 1, 1, 1, 1, 1, 1, 1, 1>>>>})
    \cup MCMessage(<<Vector(Simple(2))>>, {<<<<>>>>, <<<<7, 9>>>>, <<<<1, 1, 1, 1, 1, 1, 1, 1>>>>})
    \cup MCMessage(<<Vector(String), Simple(1)>>, {<<<<>>, 1>>, <<<< <<3>>, <<>> >>, 2>>})
    \cup MCMessage(<<Vector(Fixed(2))>>, {<<<<>>>>, <<<< <<0, 1>>, <<2, 3>> >>>>})
    \cup MCMessage(<<Array(Simple(2), 2), Array(Bool, 2)>>, {<<<<4, 11>>, <<TRUE, FALSE>>>>})
    \cup MCMessage(<<Array(String, 2)>>, {<<<< <<>>, <<1, 2>> >>>>})
    \cup MCMessage(RawMessage, {<<5, <<>>>>, <<6, <<1, 2, 3>>>>})

MCTypes == UNION {{message.type[i] : i \in DOMAIN message.type} : message \in MCMessages}

(* Every number in the place of the first length, so that it claims too    *)
(* little, too much, and a size that wraps; then the bytes of something.   *)
MCStaleBlocks ==
    {[a \in Address |-> CASE a = 0 -> low [] a = 1 -> high [] OTHER -> 1] : low, high \in Byte}

=============================================================================
