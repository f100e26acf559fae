----------------------------- MODULE MCVirtioBlk -----------------------------
(* A disk of two sectors behind a queue of six descriptors. *)
EXTENDS VirtioBlk

CONSTANTS a, b

Request(t, first, data) == [type |-> t, sector |-> first, data |-> data]

\* A write whose offset wraps around to the first sector, one of two segments,
\* the last of them beyond the end of the disk, a read, the disk id, a flush,
\* and a type the device does not know.  Read buffers hold nothing at first.
SomeRequests ==
    {Request("OUT", SECTOR_WRAP, <<a>>), Request("OUT", 1, <<b, a>>),
     Request("IN", 0, <<Nil, Nil>>), Request("GET_ID", 0, <<Nil>>),
     Request("FLUSH", 0, << >>), Request("OTHER", 0, << >>)}
=============================================================================
