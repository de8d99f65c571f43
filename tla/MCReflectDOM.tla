----------------------------- MODULE MCReflectDOM -----------------------------
EXTENDS ReflectDOM

CONSTANTS doc0, elemA, elemB, leaf1
====
