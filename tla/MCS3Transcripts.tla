------------------------------- MODULE MCS3Transcripts ------------------------------
(* S3Transcripts on a small instance. *)
EXTENDS S3Transcripts

Ev(request, tenant, type, hour) ==
    [request |-> request, tenant |-> tenant, type |-> type, hour |-> hour]

MCRequests == {"req/1", "req_1", "req_2"}
MCSafePart == [r \in MCRequests |-> IF r = "req/1" THEN "req_1" ELSE r]
MCTypes == {"request.started", "request.completed", "request.failed"}

(* The first two events of different tenants are filed alike in hour 12. *)
MCBatches == {<<Ev("req/1", "ta", "request.completed", "12h"),
                Ev("req_1", "tb", "request.completed", None)>>,
              <<Ev("req_2", "tb", "request.failed", "12h"),
                Ev("req_2", "ta", "request.started", "12h")>>}

Indexed == [valid |-> TRUE, endpoint |-> "e1", bucket |-> "b", prefix |-> "p",
            storeAll |-> TRUE, gzip |-> TRUE, table |-> "t", database |-> "d1",
            bypass |-> {}]
Plain == [Indexed EXCEPT !.database = None, !.storeAll = FALSE, !.bypass = {"ta"}]
Broken == [Indexed EXCEPT !.valid = FALSE, !.database = "d2",
                          !.bypass = {"tb"}]

MCConfigs == {Indexed, Plain, Broken}
=============================================================================
