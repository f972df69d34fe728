---------------------------- MODULE MCDiskJournal ----------------------------
EXTENDS DiskJournal

CONSTANTS r1

MCRequests == {r1}
Plain(role) == [role |-> role, req |-> NoRequest]
MCEvents == {Plain("token"), Plain("message"), [role |-> "request_open", req |-> r1]}
MCMoreEvents == MCEvents \cup {[role |-> "request_close", req |-> r1]}
=============================================================================
