------------------------- MODULE MCDownloadManager -------------------------
(* Instances of DownloadManager for TLC. *)
EXTENDS DownloadManager

(* Two files with names of their own, and two files of one name in two     *)
(* folders of the camera, which share the cached file.                     *)
TwoFiles == { [folder |-> "A001", file |-> "1.MOV"],
              [folder |-> "A001", file |-> "2.JPG"] }
OneName == { [folder |-> "A001", file |-> "1.MOV"],
             [folder |-> "A002", file |-> "1.MOV"] }
ThreeItems == TwoFiles \cup OneName
Demo == { [folder |-> "A001", file |-> "1.MOV"] }
=============================================================================
