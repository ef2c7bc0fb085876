---------------------------- MODULE MCLifecycle ----------------------------
(***************************************************************************)
(* Two errors, so that one can be counted between the two reads of the     *)
(* counter in Update after another was seen; two AGC records, so that the  *)
(* log is asked for with one counted and another being written; two        *)
(* unfinished uploads, so that one can be added while another ends; two    *)
(* channels and three words, so that a word follows the one that selects   *)
(* the channel.                                                            *)
(***************************************************************************)
EXTENDS Lifecycle

W(r, v) == [reg |-> r, val |-> v]

\* All in order with a comment; the place of register 1 taken by another, and a line too
\* many; a line too few; no file.
MCConfFiles ==
    {<<Comment, W(0, 7), W(1, 9), W(2, 8)>>, <<W(1, 9), W(2, 7), W(0, 8), W(2, 9)>>,
     <<W(0, 7), W(2, 8)>>, NoFile}

MCStackWords == {W(0, 9)}
=============================================================================
