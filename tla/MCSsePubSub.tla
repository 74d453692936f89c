---------------------------- MODULE MCSsePubSub ----------------------------
EXTENDS SsePubSub
=============================================================================
