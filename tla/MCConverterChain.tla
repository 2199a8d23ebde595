------------------------- MODULE MCConverterChain ---------------------------
(* ConverterChain with buffers of the sizes in the code, in units of 512   *)
(* bytes: 2048, 1024, and 2024 for the output of Unzip, which is not a     *)
(* multiple of what the others take.                                       *)
EXTENDS ConverterChain

MCBufferSize == [filein |-> 4, dummy |-> 4, zip |-> 4, unzip |-> 3, fileout |-> 4, md5 |-> 2]
MCInSize     == [zip |-> 4, unzip |-> 2]

World(size, zip, fault, at) == [size |-> size, zip |-> zip, fault |-> fault, at |-> at]

MCWorlds ==
  {World(n, z, "none", 0) : n \in 0..7, z \in BOOLEAN}
  \cup {World(9, FALSE, "none", 0)}
  \cup {World(n, z, f, a) : n \in {5}, z \in BOOLEAN,
        f \in {"read", "room", "cut", "changed", "answers", "disk"}, a \in 0..4}
  \cup {World(1, FALSE, "open", 0)}

=============================================================================
