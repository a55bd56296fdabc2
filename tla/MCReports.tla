----------------------------- MODULE MCReports -----------------------------
(* Reports over a few batches that hold every type of record. *)
EXTENDS Reports

Record(usage, from, imsi, to, duration, rx, tx) ==
    [usageType |-> usage, subscriberMSISDN |-> from, subscriberImsi |-> imsi,
     secondPartyMSISDN |-> to, duration |-> duration, bytesReceived |-> rx, bytesTransmitted |-> tx]

(* An IMSI of 21 is one of operator 2, one of 3 of none. *)
MCBatches ==
    << << Record("MOC", 1, 21, 2, 3, 0, 0), Record("SMS_MO", 1, 21, 2, 0, 0, 0),
          Record("U", 2, 3, 0, 0, 0, 0) >>,
       << Record("MTC", 3, 31, 1, 1, 0, 0), Record("MTC", 2, 3, 2, 2, 0, 0),
          Record("MOC", 0, 31, 3, 4, 0, 0) >>,
       << Record("MTC", 3, 31, 1, 5, 0, 0), Record("X", 1, 21, 3, 0, 0, 0),
          Record("SMS_MT", 3, 31, 1, 0, 0, 0), Record("D", 3, 31, 0, 1, 2, 1) >> >>

MCSubjects == {<<"top", "voice">>, <<"top", "op-voice">>, <<"peers", 1>>, <<"dur", 1>>, <<"sms", 3>>}
=============================================================================
