------------------------------ MODULE MCUploads ------------------------------
(* Instances of Uploads for TLC.                                           *)
EXTENDS Uploads, TLC

(* Names, requests and rows are interchangeable.                           *)
UploadSymmetry == Permutations(Files) \cup Permutations(Requests) \cup Permutations(Infos)
=============================================================================
