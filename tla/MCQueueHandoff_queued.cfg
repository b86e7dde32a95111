CONSTANTS
  MaxReads = 3
  BatchMax = 2
SPECIFICATION Spec
PROPERTY ReadIsQueued
