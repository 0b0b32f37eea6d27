------------------------- MODULE MCBitbucketCrawler -------------------------
(* BitbucketCrawler for TLC. *)
EXTENDS BitbucketCrawler
=============================================================================
