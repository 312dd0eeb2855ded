---- MODULE MCEntryLifecycle ----
EXTENDS EntryLifecycle
CONSTANTS e1, e2, c1, c2
====
