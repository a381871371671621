------------------------ MODULE ReliablePacketBuffer ------------------------
(***************************************************************************)
(* ReliablePacketBuffer of network/mtp: the sorted list of reliable        *)
(* packets that the sender keeps until they are acknowledged and that the  *)
(* receiver keeps until the packets before them have arrived.  A packet is *)
(* a record with at least a field seqnum; packets with one number are      *)
(* copies of one packet unless they differ, which the code notices by      *)
(* their size.                                                             *)
(***************************************************************************)
EXTENDS SeqNum, SequencesExt

getFirstSeqnum(list) == list[1].seqnum

HasSeqnum(list, seqnum) == \E i \in DOMAIN list : list[i].seqnum = seqnum

\* findPacketNoLock: the place of the first packet with that number.
FindPacket(list, seqnum) ==
    CHOOSE i \in DOMAIN list :
        /\ list[i].seqnum = seqnum
        /\ \A j \in 1 .. i - 1 : list[j].seqnum # seqnum

popSeqnum(list, seqnum) == RemoveAt(list, FindPacket(list, seqnum))

\* The entries the search for the insertion point runs past.
Skipped(s, seqnum, next_expected) ==
    IF seqnum < next_expected
    THEN s < seqnum \/ s >= next_expected
    ELSE s < seqnum /\ s >= next_expected

InsertionPoint(list, seqnum, next_expected) ==
    CHOOSE i \in 1 .. Len(list) + 1 :
        /\ i <= Len(list) => ~Skipped(list[i].seqnum, seqnum, next_expected)
        /\ \A j \in 1 .. i - 1 : Skipped(list[j].seqnum, seqnum, next_expected)

\* The early returns of insert(): such a packet is not buffered at all.
Rejected(p, next_expected) ==
    \/ ~seqnum_in_window(p.seqnum, next_expected, MAX_RELIABLE_WINDOW_SIZE)
    \/ p.seqnum = next_expected

\* insert() throws IncomingDataCorruption.
Corrupting(list, p, next_expected) ==
    /\ ~Rejected(p, next_expected)
    /\ LET i == InsertionPoint(list, p.seqnum, next_expected) IN
       i <= Len(list) /\ list[i].seqnum = p.seqnum /\ list[i] # p

\* A full buffer loses its oldest packet first.
MakeRoom(list) == IF Len(list) >= SEQNUM_MAX THEN Tail(list) ELSE list

insert(list, p, next_expected) ==
    IF Rejected(p, next_expected) THEN list
    ELSE LET l == MakeRoom(list)
             i == InsertionPoint(l, p.seqnum, next_expected)
         IN  IF i <= Len(l) /\ l[i].seqnum = p.seqnum THEN l
             ELSE InsertAt(l, i, p)
=============================================================================
