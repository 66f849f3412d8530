---------------------------- MODULE MCSourceTunnel ----------------------------
(* Instance of SourceTunnel: three pictures, the first fragmented and preceded *)
(* by an in-band parameter set, the second of two NAL units; two requests.     *)
EXTENDS SourceTunnel

MCVideo == <<[ts |-> 1, kind |-> "sps"], [ts |-> 1, kind |-> "fuS"],
             [ts |-> 1, kind |-> "fuE"], [ts |-> 2, kind |-> "nal"],
             [ts |-> 2, kind |-> "nal"], [ts |-> 3, kind |-> "nal"]>>
===============================================================================
