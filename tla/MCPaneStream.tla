---------------------------- MODULE MCPaneStream ----------------------------
EXTENDS PaneStream
=============================================================================
