---------------------------- MODULE MCCloudFiles ----------------------------
(* Small instances of CloudFiles: two files of alice, who holds an asset    *)
(* and whose share bob may copy.                                            *)
EXTENDS CloudFiles, TLC

CONSTANTS alice, bob, asset, history, copy

AliceOwns == [f \in Files |-> alice]
UnitSize == [f \in Files |-> 1]
AllMedia == [f \in Files |-> "media"]
SecondIsPayload == [f \in Files |-> IF f = 2 THEN "task" ELSE "media"]
HolderUser == [h \in Holders |-> IF h = copy THEN bob ELSE alice]
CheckedUser == [h \in Holders |-> alice]

(* Bound on the runs about references and deletions: an upload takes the   *)
(* straight way, file 1 to the local directory, the others to the bucket,   *)
(* and nothing else happens meanwhile.                                     *)
StraightUploads ==
  /\ \A f \in Files :
        /\ reservation'[f] # "lapsed"
        /\ up'[f] = "local" => f = 1
        /\ up'[f] = "bucket" => f # 1
        /\ up'[f] = "release" => row'[f] = "live"
        /\ up'[f] = "done" => up[f] \in {"counting", "release", "done"}
        /\ up[f] \in Uploading \cup {"counting", "release"} => up'[f] # up[f]

=============================================================================
