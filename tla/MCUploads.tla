------------------------------ MODULE MCUploads ------------------------------
(***************************************************************************)
(* The bodies TLC uploads: with a content length and without, empty and    *)
(* longer than a read, and the parts of forms.                             *)
(***************************************************************************)
EXTENDS Uploads

MCReqwestBodies == [sized : BOOLEAN, len : {0, 3}]

Form(ps) == [multipart |-> TRUE, parts |-> ps]
Plain(n) == [multipart |-> FALSE, parts |-> <<[stream |-> TRUE, len |-> n]>>]
Part(isStream, n) == [stream |-> isStream, len |-> n]

MCNsBodies ==
  {Plain(3), Plain(0), Form(<<Part(FALSE, 1), Part(TRUE, 2)>>),
   Form(<<Part(TRUE, 1), Part(TRUE, 0)>>)}

\* One part starts in any of its initial states, each of the others in one.
MCInit ==
  /\ part \in {"curl", "reqwest", "ns", "winrt", "winrt blocking"}
  /\ part # "reqwest" => mode = "inside" /\ content = [sized |-> TRUE, len |-> 0]
  /\ part # "ns" => conf = [client |-> "async", body |-> Plain(0)]
  /\ UploadsInit

MCSpec == MCInit /\ [][UploadsNext]_UploadsVars /\ CurlFairness /\ OtherFairness

ReqwestSpec == MCInit /\ part = "reqwest" /\ [][UploadsNext]_UploadsVars

=============================================================================
