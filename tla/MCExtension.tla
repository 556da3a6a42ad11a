---- MODULE MCExtension ----
EXTENDS Extension
MCTray == <<<<"a", "b">>, <<"c", "d">>>>
====
