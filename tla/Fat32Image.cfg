SPECIFICATION Spec
CONSTANT
    ImageSizes = {1048575, 1048576, 2091007, 2091008, 2091009, 3141632,
                  11546624, 15749120, 16777216, 16777217}
INVARIANTS
    LayoutFits
    WritesApart
CHECK_DEADLOCK FALSE
